---- MODULE Spec2Model ----
(***************************************************************************)
(* A model of the GunnyScript lexer (gunnyscript/src/parser.rs), its       *)
(* number and date parsers and the document builder                        *)
(* (gunnyscript/src/value.rs).  Characters are one-character strings and   *)
(* texts are sequences of characters.  The absent character (Option::None  *)
(* of maybe_peek) is the empty string.                                     *)
(***************************************************************************)
EXTENDS Integers, Sequences, FiniteSets, TLC

\* ------------------------------------------------------------------------
\* Characters
\* ------------------------------------------------------------------------

NoChar == ""
NL == "\n"
CR == "\r"
TAB == "\t"
SP == " "
QUOTE == "\""
BSLASH == "\\"
NUL == "NUL"

DigitSeq == <<"0", "1", "2", "3", "4", "5", "6", "7", "8", "9">>
LowerSeq == <<"a", "b", "c", "d", "e", "f", "g", "h", "i", "j", "k", "l", "m",
              "n", "o", "p", "q", "r", "s", "t", "u", "v", "w", "x", "y", "z">>
UpperSeq == <<"A", "B", "C", "D", "E", "F", "G", "H", "I", "J", "K", "L", "M",
              "N", "O", "P", "Q", "R", "S", "T", "U", "V", "W", "X", "Y", "Z">>

Range(f) == {f[i] : i \in DOMAIN f}

Digit == Range(DigitSeq)
Lower == Range(LowerSeq)
Upper == Range(UpperSeq)
Letter == Lower \cup Upper

IndexOf(sq, c) == CHOOSE i \in DOMAIN sq : sq[i] = c

\* The value of c as a digit in a radix up to 36 (char::to_digit), or -1.
DigitValue(c) ==
    IF c \in Digit THEN IndexOf(DigitSeq, c) - 1
    ELSE IF c \in Lower THEN IndexOf(LowerSeq, c) + 9
    ELSE IF c \in Upper THEN IndexOf(UpperSeq, c) + 9
    ELSE -1

Contains(s, c) == \E i \in DOMAIN s : s[i] = c

StartsWith(s, p) == Len(s) >= Len(p) /\ SubSeq(s, 1, Len(p)) = p

Drop(s, n) == SubSeq(s, n + 1, Len(s))

RECURSIVE TrimStartMatches(_, _)
TrimStartMatches(s, c) ==
    IF s # <<>> /\ Head(s) = c THEN TrimStartMatches(Tail(s), c) ELSE s

\* str::split: the fields of s between occurrences of c (always at least one).
RECURSIVE SplitAcc(_, _, _, _)
SplitAcc(s, c, cur, acc) ==
    IF s = <<>> THEN Append(acc, cur)
    ELSE IF Head(s) = c THEN SplitAcc(Tail(s), c, <<>>, Append(acc, cur))
    ELSE SplitAcc(Tail(s), c, Append(cur, Head(s)), acc)

Split(s, c) == SplitAcc(s, c, <<>>, <<>>)

\* ------------------------------------------------------------------------
\* Numbers (gunnyscript/src/number.rs)
\* ------------------------------------------------------------------------

\* The result of a text-to-value conversion: ok, or the error's name with the
\* detail of the underlying failure.
Parsed(kind, n, d) ==
    [ok |-> TRUE, kind |-> kind, n |-> n, d |-> d, f |-> <<>>, err |-> "", detail |-> ""]
Failed(err, detail) ==
    [ok |-> FALSE, kind |-> "", n |-> 0, d |-> 0, f |-> <<>>, err |-> err, detail |-> detail]

RECURSIVE DigitsValue(_, _, _)
DigitsValue(s, radix, acc) ==
    IF s = <<>> THEN acc
    ELSE DigitsValue(Tail(s), radix, acc * radix + DigitValue(Head(s)))

AllDigits(s, radix) ==
    \A i \in DOMAIN s : DigitValue(s[i]) >= 0 /\ DigitValue(s[i]) < radix

\* core::num from_str_radix.  A leading "+" is accepted by every integer
\* type, a leading "-" only by the signed ones; a sign alone is an invalid
\* digit.  The texts of the model are far shorter than the 64-bit range, so
\* the overflow outcomes do not arise.
ParseInt(s, radix, signed) ==
    IF s = <<>> THEN Failed("", "Empty")
    ELSE IF Len(s) = 1 /\ Head(s) \in {"+", "-"} THEN Failed("", "InvalidDigit")
    ELSE LET neg == signed /\ Head(s) = "-"
             body == IF Head(s) = "+" \/ neg THEN Tail(s) ELSE s
         IN  IF ~AllDigits(body, radix) THEN Failed("", "InvalidDigit")
             ELSE LET v == DigitsValue(body, radix, 0)
                  IN  Parsed("", IF neg THEN -v ELSE v, 0)

WithError(r, kind, err) ==
    IF r.ok THEN Parsed(kind, r.n, r.d) ELSE Failed(err, r.detail)

parse_hex(s) == WithError(ParseInt(s, 16, FALSE), "Unsigned", "InvalidHexNumber")

parse_signed(s) == WithError(ParseInt(s, 10, TRUE), "Signed", "InvalidSignedNumber")

parse_unsigned(s) == WithError(ParseInt(s, 10, FALSE), "Unsigned", "InvalidUnsignedNumber")

parse_octal(s) == WithError(ParseInt(s, 8, FALSE), "Unsigned", "InvalidOctalNumber")

RECURSIVE TrimEndZeros(_)
TrimEndZeros(s) ==
    IF s # <<>> /\ s[Len(s)] = "0" THEN TrimEndZeros(SubSeq(s, 1, Len(s) - 1)) ELSE s

\* I64F64::from_str: an optional sign, decimal digits with one optional
\* point, and at least one digit.  The value is n / 10^d with the trailing
\* zeros of the fraction dropped, so that equal values are equal records.
parse_fixed(s) ==
    LET neg == s # <<>> /\ Head(s) = "-"
        body == IF s # <<>> /\ Head(s) \in {"+", "-"} THEN Tail(s) ELSE s
        parts == Split(body, ".")
        int == parts[1]
        frac == IF Len(parts) > 1 THEN TrimEndZeros(parts[2]) ELSE <<>>
    IN  IF Len(parts) > 2 THEN Failed("InvalidFixedPointNumber", "InvalidDigit")
        ELSE IF ~AllDigits(int, 10) \/ (Len(parts) > 1 /\ ~AllDigits(parts[2], 10))
        THEN Failed("InvalidFixedPointNumber", "InvalidDigit")
        ELSE IF int = <<>> /\ (Len(parts) = 1 \/ parts[2] = <<>>)
        THEN Failed("InvalidFixedPointNumber", "NoDigits")
        ELSE LET v == DigitsValue(int \o frac, 10, 0)
             IN  Parsed("Fixed", IF neg THEN -v ELSE v, Len(frac))

\* Number::from_str with the test of the sign put before the test of the point.
Number_from_str_sign_first(s) ==
    IF StartsWith(s, <<"0", "x">>) THEN parse_hex(Drop(s, 2))
    ELSE IF StartsWith(s, <<"-">>) THEN parse_signed(s)
    ELSE IF Contains(s, ".") THEN parse_fixed(s)
    ELSE IF StartsWith(s, <<"0">>) /\ Len(s) > 1 THEN parse_octal(s)
    ELSE parse_unsigned(s)

\* Number::from_str
Number_from_str(s) ==
    IF StartsWith(s, <<"0", "x">>) THEN parse_hex(Drop(s, 2))
    ELSE IF Contains(s, ".") THEN parse_fixed(s)
    ELSE IF StartsWith(s, <<"-">>) THEN parse_signed(s)
    ELSE IF StartsWith(s, <<"0">>) /\ Len(s) > 1 THEN parse_octal(s)
    ELSE parse_unsigned(s)

\* ------------------------------------------------------------------------
\* Dates (gunnyscript/src/parser.rs, parse_date and parse_date_time)
\* ------------------------------------------------------------------------

IsLeapYear(y) == y % 4 = 0 /\ (y % 100 # 0 \/ y % 400 = 0)

DaysInMonth(y, m) ==
    IF m \in {4, 6, 9, 11} THEN 30
    ELSE IF m = 2 THEN (IF IsLeapYear(y) THEN 29 ELSE 28)
    ELSE 31

\* Date::from_calendar_date preceded by Month::try_from
from_calendar_date(y, m, d) ==
    IF m < 1 \/ m > 12 THEN Failed("InvalidDate", "month")
    ELSE IF y < -9999 \/ y > 9999 THEN Failed("InvalidDate", "year")
    ELSE IF d < 1 \/ d > DaysInMonth(y, m) THEN Failed("InvalidDate", "day")
    ELSE Parsed("Date", y, m * 100 + d)

\* parse_date: the first three fields of the text split on "-"; further
\* fields are never read.
parse_date(s) ==
    LET ymd == Split(s, "-")
        year == ParseInt(ymd[1], 10, TRUE)
    IN  IF ~year.ok THEN Failed("InvalidDateYear", year.detail)
        ELSE IF Len(ymd) < 2 THEN Failed("MissingMonthInDate", "")
        ELSE LET month == ParseInt(TrimStartMatches(ymd[2], "0"), 10, FALSE)
             IN  IF ~month.ok THEN Failed("InvalidDateMonth", month.detail)
                 ELSE IF Len(ymd) < 3 THEN Failed("MissingDayInDate", "")
                 ELSE LET day == ParseInt(TrimStartMatches(ymd[3], "0"), 10, FALSE)
                      IN  IF ~day.ok THEN Failed("InvalidDateDay", day.detail)
                          ELSE from_calendar_date(year.n, month.n, day.n)

\* The days from 0000-01-01 to the given calendar date.
DayNumber(y, m, d) ==
    LET before == y - 1
        leaps == IF y = 0 THEN 0 ELSE (before \div 4) - (before \div 100) + (before \div 400) + 1
        RECURSIVE MonthDays(_)
        MonthDays(k) == IF k = 0 THEN 0 ELSE DaysInMonth(y, k) + MonthDays(k - 1)
    IN  365 * y + leaps + MonthDays(m - 1) + (d - 1)

DigitsAt(s, from, to) ==
    to <= Len(s) /\ \A i \in from..to : s[i] \in Digit

NumAt(s, from, to) == DigitsValue(SubSeq(s, from, to), 10, 0)

RECURSIVE DigitRunEnd(_, _)
DigitRunEnd(s, i) ==
    IF i <= Len(s) /\ s[i] \in Digit THEN DigitRunEnd(s, i + 1) ELSE i

SecondsPerDay == 24 * 60 * 60

\* parse_date_time: OffsetDateTime::parse(s, &Rfc3339).  The text is
\* YYYY-MM-DDTHH:MM:SS, an optional fraction, and Z or a signed HH:MM offset.
\* Two date-times are equal when they name the same instant, so the value is
\* the instant: n the day, d the second of the day in UTC, f the fraction.
parse_date_time(s) ==
    LET bad == Failed("InvalidDateTime", "")
        shape == /\ DigitsAt(s, 1, 4) /\ Len(s) >= 20 /\ s[5] = "-"
                 /\ DigitsAt(s, 6, 7) /\ s[8] = "-" /\ DigitsAt(s, 9, 10)
                 /\ s[11] \in {"T", "t"}
                 /\ DigitsAt(s, 12, 13) /\ s[14] = ":" /\ DigitsAt(s, 15, 16)
                 /\ s[17] = ":" /\ DigitsAt(s, 18, 19)
    IN  IF ~shape THEN bad
        ELSE
        LET y == NumAt(s, 1, 4)
            mo == NumAt(s, 6, 7)
            dd == NumAt(s, 9, 10)
            h == NumAt(s, 12, 13)
            mi == NumAt(s, 15, 16)
            sec == NumAt(s, 18, 19)
            hasFrac == s[20] = "."
            fracEnd == IF hasFrac THEN DigitRunEnd(s, 21) ELSE 20
            frac == IF hasFrac THEN TrimEndZeros(SubSeq(s, 21, fracEnd - 1)) ELSE <<>>
            rest == Drop(s, fracEnd - 1)
            zulu == rest \in {<<"Z">>, <<"z">>}
            offOk == /\ Len(rest) = 6 /\ rest[1] \in {"+", "-"}
                     /\ DigitsAt(rest, 2, 3) /\ rest[4] = ":" /\ DigitsAt(rest, 5, 6)
                     /\ NumAt(rest, 2, 3) <= 23 /\ NumAt(rest, 5, 6) <= 59
            offMin == IF zulu THEN 0
                      ELSE (IF rest[1] = "-" THEN -1 ELSE 1)
                           * (NumAt(rest, 2, 3) * 60 + NumAt(rest, 5, 6))
            date == from_calendar_date(y, mo, dd)
        IN  IF (hasFrac /\ fracEnd = 21) \/ ~(zulu \/ offOk) THEN bad
            ELSE IF ~date.ok \/ h > 23 \/ mi > 59 \/ sec > 59 THEN bad
            ELSE LET local == (h * 60 + mi) * 60 + sec - offMin * 60
                     carry == IF local < 0 THEN -1 ELSE IF local >= SecondsPerDay THEN 1 ELSE 0
                 IN  [Parsed("DateTime", DayNumber(y, mo, dd) + carry,
                             local - carry * SecondsPerDay) EXCEPT !.f = frac]

\* ------------------------------------------------------------------------
\* The lexer (gunnyscript/src/parser.rs)
\* ------------------------------------------------------------------------

\* Location::default
StartLine == 1
StartColumn == 1
Location_default == [line |-> StartLine, column |-> StartColumn, bytes |-> 0]

next_line(loc) == [loc EXCEPT !.line = loc.line + 1, !.column = StartColumn]

next_column(loc) == [loc EXCEPT !.column = loc.column + 1]

\* Parser::default (State::default is ExpectingValue)
Parser_default ==
    [state |-> "ExpectingValue",
     location |-> Location_default,
     buf_location |-> Location_default,
     maybe_peek |-> NoChar,
     newline_count |-> 0,
     nesting |-> <<>>,
     just_parsed_doc_comment |-> FALSE]

\* Events.  kind is the SimpleValue variant or the ComplexValue; variant is
\* the Number variant; text, n, d, f carry the value.
Ev(type, kind, variant, text, n, d, f) ==
    [type |-> type, kind |-> kind, variant |-> variant, text |-> text,
     n |-> n, d |-> d, f |-> f]

NoEvent == Ev("", "", "", <<>>, 0, 0, <<>>)
Linespace == Ev("Linespace", "", "", <<>>, 0, 0, <<>>)
DocCommentLine(text) == Ev("DocCommentLine", "", "", text, 0, 0, <<>>)
Start(cv) == Ev("Start", cv, "", <<>>, 0, 0, <<>>)
End(cv) == Ev("End", cv, "", <<>>, 0, 0, <<>>)
PropertyName(name) == Ev("PropertyName", "", "", name, 0, 0, <<>>)
SimpleNull == Ev("SimpleValue", "Null", "", <<>>, 0, 0, <<>>)
SimpleBoolean(b) == Ev("SimpleValue", "Boolean", "", <<>>, IF b THEN 1 ELSE 0, 0, <<>>)
SimpleString(text) == Ev("SimpleValue", "String", "", text, 0, 0, <<>>)
SimpleNumber(r) == Ev("SimpleValue", "Number", r.kind, <<>>, r.n, r.d, <<>>)
SimpleDate(r) == Ev("SimpleValue", "Date", "", <<>>, r.n, r.d, <<>>)
SimpleDateTime(r) == Ev("SimpleValue", "DateTime", "", <<>>, r.n, r.d, r.f)

\* LocatedParseError
NoError == [name |-> "", ch |-> NoChar, text |-> <<>>, detail |-> "", line |-> 0, column |-> 0]
LocatedParseError(loc, name, ch, text, detail) ==
    [name |-> name, ch |-> ch, text |-> text, detail |-> detail,
     line |-> loc.line, column |-> loc.column]

\* A machine m is the parser (m.p) with the buffer it reads (m.b).  The
\* result of a step: st is "ok", "incomplete" (EoI::Incomplete) or "error"
\* (EoI::Error), m the machine it leaves, and ch, s, ev, err what it returns.
Res(m) == [st |-> "ok", m |-> m, ch |-> NoChar, s |-> <<>>, ev |-> NoEvent, err |-> NoError]
OkCh(m, c) == [Res(m) EXCEPT !.ch = c]
OkS(m, s) == [Res(m) EXCEPT !.s = s]
OkEv(m, ev) == [Res(m) EXCEPT !.ev = ev]
Incomplete(m) == [Res(m) EXCEPT !.st = "incomplete"]

err_in_buf(m, name, ch) ==
    [Res(m) EXCEPT !.st = "error",
                   !.err = LocatedParseError(m.p.buf_location, name, ch, <<>>, "")]

err_at_buf(m, name, text, detail) ==
    [Res(m) EXCEPT !.st = "error",
                   !.err = LocatedParseError(m.p.location, name, NoChar, text, detail)]

has_remaining(m) == m.b # <<>>

\* Decoder::decode_char on a buffer of one-byte characters: the next
\* character, taken off the buffer, or none when the buffer is empty.
decode_char(m) ==
    IF m.b = <<>> THEN Incomplete(m)
    ELSE OkCh([m EXCEPT !.b = Tail(m.b)], Head(m.b))

next_char(m) ==
    IF m.p.maybe_peek # NoChar
    THEN OkCh([m EXCEPT !.p.maybe_peek = NoChar], m.p.maybe_peek)
    ELSE IF m.b = <<>> THEN decode_char(m)
    ELSE IF Head(m.b) = NL
    THEN decode_char([m EXCEPT !.p.buf_location = next_line(@)])
    ELSE IF Head(m.b) # CR
    THEN decode_char([m EXCEPT !.p.buf_location = next_column(@)])
    ELSE decode_char(m)

\* The `?` of the source: an unsuccessful result is returned as it is, a
\* successful one is handed on.
Then(r, K(_)) == IF r.st # "ok" THEN r ELSE K(r)

RECURSIVE consume_until_not(_, _)
consume_until_not(m, keep_matching) ==
    IF ~has_remaining(m) THEN Incomplete(m)
    ELSE Then(next_char(m), LAMBDA r :
             IF r.ch \notin keep_matching
             THEN Res([r.m EXCEPT !.p.maybe_peek = r.ch])
             ELSE consume_until_not(r.m, keep_matching))

\* A variant that skips spaces only.
skip_spaces(m) == consume_until_not(m, {SP})

skip_whitespace(m) == consume_until_not(m, {SP, TAB, CR})

start_object(m) ==
    OkEv([m EXCEPT !.p.nesting = Append(@, "Object"),
                   !.p.state = "ExpectingPropertyName"],
         Start("Object"))

\* A variant that reports the start of an array without recording it.
start_array_without_push(m) == OkEv(m, Start("Array"))

start_array(m) ==
    OkEv([m EXCEPT !.p.nesting = Append(@, "Array")], Start("Array"))

Last(sq) == sq[Len(sq)]
Pop(sq) == SubSeq(sq, 1, Len(sq) - 1)

\* A variant that closes whatever is open, of either kind.
end_complex_value_any_kind(m, ch, cv) ==
    IF m.p.nesting = <<>> THEN err_in_buf(m, "UnexpectedChar", ch)
    ELSE OkEv([m EXCEPT !.p.nesting = Pop(@)], End(cv))

end_complex_value(m, ch, cv) ==
    IF m.p.nesting = <<>> THEN err_in_buf(m, "UnexpectedChar", ch)
    ELSE IF Last(m.p.nesting) = cv
    THEN OkEv([m EXCEPT !.p.nesting = Pop(@)], End(cv))
    ELSE err_in_buf(m, "UnexpectedChar", ch)

TokenChar == Digit \cup Letter \cup {"-", ":", "."}

RECURSIVE non_string_loop(_, _)
non_string_loop(m, s) ==
    IF ~has_remaining(m)
    THEN (IF m.p.nesting = <<>> THEN OkS(m, s) ELSE Incomplete(m))
    ELSE Then(next_char(m), LAMBDA r :
             IF r.ch \in {SP, TAB, CR} THEN OkS(r.m, s)
             ELSE IF r.ch = ","
             THEN (IF r.m.p.nesting = <<>>
                   THEN err_in_buf(r.m, "UnexpectedChar", r.ch)
                   ELSE OkS(r.m, s))
             ELSE IF r.ch = NL THEN OkS([r.m EXCEPT !.p.maybe_peek = r.ch], s)
             ELSE IF r.ch \in TokenChar THEN non_string_loop(r.m, Append(s, r.ch))
             ELSE err_in_buf(r.m, "UnexpectedChar", r.ch))

parse_non_string_simple_value(m, first_char) == non_string_loop(m, <<first_char>>)

\* A converted text as the event it makes, or its error at the start of the
\* buffer (map_err(|e| self.err_at_buf(e))).
ValueEvent(m, s, v, Event(_)) ==
    IF v.ok THEN OkEv(m, Event(v)) ELSE err_at_buf(m, v.err, s, v.detail)

parse_number(m, first_char) ==
    Then(parse_non_string_simple_value(m, first_char), LAMBDA r :
        ValueEvent(r.m, r.s, Number_from_str(r.s), SimpleNumber))

\* parse_number_or_date with the test of "-" put before the test of ":".
parse_number_or_date_dash_first(m, first_char) ==
    IF first_char \in {"-", "+"} THEN parse_number(m, first_char)
    ELSE Then(parse_non_string_simple_value(m, first_char), LAMBDA r :
             IF Contains(r.s, "-")
             THEN ValueEvent(r.m, r.s, parse_date(r.s), SimpleDate)
             ELSE IF Contains(r.s, ":")
             THEN ValueEvent(r.m, r.s, parse_date_time(r.s), SimpleDateTime)
             ELSE ValueEvent(r.m, r.s, Number_from_str(r.s), SimpleNumber))

parse_number_or_date(m, first_char) ==
    IF first_char \in {"-", "+"} THEN parse_number(m, first_char)
    ELSE Then(parse_non_string_simple_value(m, first_char), LAMBDA r :
             IF Contains(r.s, ":")
             THEN ValueEvent(r.m, r.s, parse_date_time(r.s), SimpleDateTime)
             ELSE IF Contains(r.s, "-")
             THEN ValueEvent(r.m, r.s, parse_date(r.s), SimpleDate)
             ELSE ValueEvent(r.m, r.s, Number_from_str(r.s), SimpleNumber))

parse_bool(m, first_char) ==
    Then(parse_non_string_simple_value(m, first_char), LAMBDA r :
        IF r.s = <<"t", "r", "u", "e">> THEN OkEv(r.m, SimpleBoolean(TRUE))
        ELSE IF r.s = <<"f", "a", "l", "s", "e">> THEN OkEv(r.m, SimpleBoolean(FALSE))
        ELSE err_at_buf(r.m, "InvalidIdentifier", r.s, ""))

parse_null(m, first_char) ==
    Then(parse_non_string_simple_value(m, first_char), LAMBDA r :
        IF r.s = <<"n", "u", "l", "l">> THEN OkEv(r.m, SimpleNull)
        ELSE err_at_buf(r.m, "InvalidIdentifier", r.s, ""))

\* A variant that takes the end of the buffer after a backslash for a bad
\* escape sequence.
parse_escape_seq_at_end(m) ==
    IF m.p.maybe_peek = NoChar /\ ~has_remaining(m)
    THEN err_in_buf(m, "InvalidEscapeSequence", NoChar)
    ELSE Then(next_char(m), LAMBDA r :
             IF r.ch \in {QUOTE, "'", BSLASH} THEN OkCh(r.m, r.ch)
             ELSE err_in_buf(r.m, "InvalidEscapeSequence", r.ch))

parse_escape_seq(m) ==
    Then(next_char(m), LAMBDA r :
        IF r.ch \in {QUOTE, "'", BSLASH} THEN OkCh(r.m, r.ch)
        ELSE IF r.ch = "n" THEN OkCh(r.m, NL)
        ELSE IF r.ch = "r" THEN OkCh(r.m, CR)
        ELSE IF r.ch = "t" THEN OkCh(r.m, TAB)
        ELSE IF r.ch = "0" THEN OkCh(r.m, NUL)
        ELSE err_in_buf(r.m, "InvalidEscapeSequence", r.ch))

RECURSIVE string_loop(_, _)
string_loop(m, value) ==
    IF ~has_remaining(m) THEN Incomplete(m)
    ELSE Then(next_char(m), LAMBDA r :
             IF r.ch = BSLASH
             THEN Then(parse_escape_seq(r.m), LAMBDA e :
                      string_loop(e.m, Append(value, e.ch)))
             ELSE IF r.ch = QUOTE THEN OkEv(r.m, SimpleString(value))
             ELSE string_loop(r.m, Append(value, r.ch)))

parse_string(m) == string_loop(m, <<>>)

EndsWith(s, suffix) ==
    Len(s) >= Len(suffix) /\ SubSeq(s, Len(s) - Len(suffix) + 1, Len(s)) = suffix

StripSuffix(s, suffix) == SubSeq(s, 1, Len(s) - Len(suffix))

RECURSIVE string_literal_loop(_, _, _, _)
string_literal_loop(m, in_string, value, closing_tag) ==
    IF ~has_remaining(m) THEN Incomplete(m)
    ELSE Then(next_char(m), LAMBDA r :
             IF in_string
             THEN (IF EndsWith(Append(value, r.ch), closing_tag)
                   THEN OkEv(r.m, SimpleString(StripSuffix(Append(value, r.ch), closing_tag)))
                   ELSE string_literal_loop(r.m, TRUE, Append(value, r.ch), closing_tag))
             ELSE IF r.ch = "#"
             THEN string_literal_loop(r.m, FALSE, value, Append(closing_tag, "#"))
             ELSE IF r.ch = QUOTE
             THEN string_literal_loop(r.m, TRUE, value, closing_tag)
             ELSE err_in_buf(r.m, "InvalidLiteralStringChar", r.ch))

\* A variant whose closing fence is one `#` short.
parse_string_literal_short_fence(m) == string_literal_loop(m, FALSE, <<>>, <<QUOTE>>)

parse_string_literal(m) == string_literal_loop(m, FALSE, <<>>, <<QUOTE, "#">>)

RECURSIVE doc_comment_loop(_, _)
doc_comment_loop(m, value) ==
    IF ~has_remaining(m) THEN Incomplete(m)
    ELSE Then(next_char(m), LAMBDA r :
             IF r.ch = NL
             THEN OkEv([r.m EXCEPT !.p.maybe_peek = r.ch],
                       DocCommentLine(Append(value, r.ch)))
             ELSE doc_comment_loop(r.m, Append(value, r.ch)))

parse_doc_comment_line(m) == doc_comment_loop(m, <<>>)

RECURSIVE single_line_loop(_)
single_line_loop(m) ==
    IF ~has_remaining(m) THEN Incomplete(m)
    ELSE Then(next_char(m), LAMBDA r :
             IF r.ch = NL THEN Res([r.m EXCEPT !.p.maybe_peek = r.ch])
             ELSE single_line_loop(r.m))

\* Ok(None) is the ok result with no event.
parse_single_line_comment(m, first_char) ==
    IF first_char = NL THEN Res(m) ELSE single_line_loop(m)

RECURSIVE multiline_loop(_, _)
multiline_loop(m, lookahead) ==
    IF ~has_remaining(m) THEN Incomplete(m)
    ELSE Then(next_char(m), LAMBDA r :
             IF <<lookahead[2], r.ch>> = <<"*", "/">> THEN Res(r.m)
             ELSE multiline_loop(r.m, <<lookahead[2], r.ch>>))

\* A variant that takes the `*` of the opener for the start of a terminator.
parse_multiline_comment_reuse_star(m) == multiline_loop(m, <<NUL, "*">>)

parse_multiline_comment(m) == multiline_loop(m, <<NUL, NUL>>)

\* The comment that `/` opens; doc_comments tells whether a `///` line is
\* accepted here.
parse_comment(m, doc_comments) ==
    Then(next_char(m), LAMBDA r1 :
        IF r1.ch = "/"
        THEN Then(next_char(r1.m), LAMBDA r2 :
                 IF r2.ch = "/"
                 THEN (IF doc_comments
                       THEN parse_doc_comment_line(r2.m)
                       ELSE err_at_buf(r2.m, "UnexpectedDocComment", <<>>, ""))
                 ELSE parse_single_line_comment(r2.m, r2.ch))
        ELSE IF r1.ch = "*" THEN parse_multiline_comment(r1.m)
        ELSE err_in_buf(r1.m, "InvalidCommentDelimiter", r1.ch))

\* A variant that accepts a doc comment at any depth.
parse_pre_value_comment_any_depth(m) == parse_comment(m, TRUE)

parse_pre_value_comment(m) == parse_comment(m, m.p.nesting = <<>>)

parse_pre_propname_comment(m) == parse_comment(m, TRUE)

NameChar == Letter \cup Digit \cup {"-", "_"}

RECURSIVE property_name_loop(_, _)
property_name_loop(m, name) ==
    IF ~has_remaining(m) THEN Incomplete(m)
    ELSE Then(next_char(m), LAMBDA r :
             IF r.ch \in NameChar THEN property_name_loop(r.m, Append(name, r.ch))
             ELSE IF r.ch \in {SP, TAB} THEN OkEv(r.m, PropertyName(name))
             ELSE err_in_buf(r.m, "UnexpectedChar", r.ch))

parse_property_name(m, first_char) == property_name_loop(m, <<first_char>>)

\* The match on the state and the character of Parser::next.  The result
\* with no event is Some(None): a token that yields nothing.
dispatch(m, ch) ==
    IF m.p.state = "ExpectingValue"
    THEN IF ch = "{" THEN start_object(m)
         ELSE IF ch = "[" THEN start_array(m)
         ELSE IF ch = "]" THEN end_complex_value(m, ch, "Array")
         ELSE IF ch = "-" \/ ch \in Digit THEN parse_number_or_date(m, ch)
         ELSE IF ch \in {"t", "f"} THEN parse_bool(m, ch)
         ELSE IF ch = "n" THEN parse_null(m, ch)
         ELSE IF ch = "#" THEN parse_string_literal(m)
         ELSE IF ch = QUOTE THEN parse_string(m)
         ELSE IF ch = "/" THEN parse_pre_value_comment(m)
         ELSE IF ch = ","
         THEN (IF m.p.nesting = <<>> THEN err_in_buf(m, "UnexpectedChar", ch) ELSE Res(m))
         ELSE err_in_buf(m, "UnexpectedChar", ch)
    ELSE IF ch = "}" THEN end_complex_value(m, ch, "Object")
         ELSE IF ch \in Letter
         THEN Then(parse_property_name(m, ch), LAMBDA id :
                  [id EXCEPT !.m.p.state = "ExpectingValue"])
         ELSE IF ch = "/" THEN parse_pre_propname_comment(m)
         ELSE IF ch = "," THEN Res(m)
         ELSE err_in_buf(m, "InvalidPropertyNameChar", ch)

\* A variant that never moves to ExpectingPropertyName after a value.
after_token_keep_state(m, ev) ==
    [m EXCEPT !.p.just_parsed_doc_comment = (ev.type = "DocCommentLine"),
              !.p.location = m.p.buf_location]

\* The bookkeeping of Parser::next after a token: the state that follows the
\* end of a value, the doc-comment flag, and the commit of the location.
after_token(m, ev) ==
    [m EXCEPT !.p.state = IF /\ ev.type \in {"SimpleValue", "End"}
                             /\ m.p.nesting # <<>>
                             /\ Last(m.p.nesting) = "Object"
                          THEN "ExpectingPropertyName" ELSE @,
              !.p.just_parsed_doc_comment = (ev.type = "DocCommentLine"),
              !.p.location = m.p.buf_location]

\* The inner loop of Parser::next on newlines.  It returns an event
\* (Linespace) or an error to return at once, or the first character that is
\* not a newline.
\* A variant that resets the newline counter when it returns Linespace.
RECURSIVE newline_loop_reset(_, _)
newline_loop_reset(m, ch) ==
    IF ch # NL THEN OkCh(m, ch)
    ELSE IF m.p.newline_count + 1 = 2
    THEN (IF m.p.just_parsed_doc_comment
          THEN err_in_buf([m EXCEPT !.p.newline_count = @ + 1], "DanglingDocComment", NoChar)
          ELSE OkEv([m EXCEPT !.p.newline_count = 0], Linespace))
    ELSE Then(skip_whitespace([m EXCEPT !.p.newline_count = @ + 1]), LAMBDA w :
             Then(next_char(w.m), LAMBDA c : newline_loop_reset(c.m, c.ch)))

RECURSIVE newline_loop(_, _)
newline_loop(m, ch) ==
    IF ch # NL THEN OkCh(m, ch)
    ELSE IF m.p.newline_count + 1 = 2
    THEN (IF m.p.just_parsed_doc_comment
          THEN err_in_buf([m EXCEPT !.p.newline_count = @ + 1], "DanglingDocComment", NoChar)
          ELSE OkEv([m EXCEPT !.p.newline_count = @ + 1], Linespace))
    ELSE Then(skip_whitespace([m EXCEPT !.p.newline_count = @ + 1]), LAMBDA w :
             Then(next_char(w.m), LAMBDA c : newline_loop(c.m, c.ch)))

\* Parser::next.  The result's ch is the character the state match was
\* entered with, when it was entered.
RECURSIVE next_loop(_)
after_dispatch(t, ch) ==
    IF t.st # "ok" THEN [t EXCEPT !.ch = ch]
    ELSE IF t.ev = NoEvent THEN next_loop(after_token(t.m, t.ev))
    ELSE [OkEv(after_token(t.m, t.ev), t.ev) EXCEPT !.ch = ch]

next_loop(m) ==
    Then(skip_whitespace([m EXCEPT !.p.buf_location = m.p.location]), LAMBDA w :
        Then(next_char(w.m), LAMBDA c :
            Then(newline_loop(c.m, c.ch), LAMBDA nl :
                IF nl.ev # NoEvent THEN nl
                ELSE after_dispatch(dispatch([nl.m EXCEPT !.p.newline_count = 0], nl.ch),
                                    nl.ch))))

Parser_next(p, buf) == next_loop([p |-> p, b |-> buf])

\* Parser::expecting_more
expecting_more(p) == p.nesting # <<>>

\* ------------------------------------------------------------------------
\* Driving the lexer
\* ------------------------------------------------------------------------

\* What a call of Parser::next returned: an event, Incomplete or an error.
Outcome(r) == [st |-> r.st, ev |-> r.ev, err |-> r.err]

\* test::parse_tests: Parser::next called on one buffer from a given parser
\* until it no longer returns an event; the events, and the error if the
\* last call returned one.
RECURSIVE RunFrom(_, _, _)
RunFrom(p, buf, acc) ==
    LET r == Parser_next(p, buf)
    IN  IF r.st = "ok" THEN RunFrom(r.m.p, r.m.b, Append(acc, Outcome(r)))
        ELSE IF r.st = "error" THEN Append(acc, Outcome(r))
        ELSE acc

RunWhole(text) == RunFrom(Parser_default, text, <<>>)

\* ------------------------------------------------------------------------
\* The document builder (value.rs)
\* ------------------------------------------------------------------------

\* Option<String>
NoneText == [some |-> FALSE, text |-> <<>>]
SomeText(s) == [some |-> TRUE, text |-> s]

\* Vec<String>::join("")
RECURSIVE Join(_)
Join(lines) == IF lines = <<>> THEN <<>> ELSE Head(lines) \o Join(Tail(lines))

\* enum Value.  A simple value keeps the payload of its variant; an Array
\* keeps its items and an Object its map from names to DocValues.
Value(type, variant, text, n, d, f, items, map) ==
    [type |-> type, variant |-> variant, text |-> text, n |-> n, d |-> d, f |-> f,
     items |-> items, map |-> map]

Value_Null == Value("Null", "", <<>>, 0, 0, <<>>, <<>>, <<>>)
Value_Array(values) == Value("Array", "", <<>>, 0, 0, <<>>, values, <<>>)
Value_Object(map) == Value("Object", "", <<>>, 0, 0, <<>>, <<>>, map)

\* impl From<SimpleValue> for Value
Value_from(ev) == Value(ev.kind, ev.variant, ev.text, ev.n, ev.d, ev.f, <<>>, <<>>)

\* struct DocValue(Option<String>, Value)
DocValue(maybe_doc, value) == [doc |-> maybe_doc, value |-> value]

\* enum Error: UnexpectedEof, Parse(ParseError), LocatedParse(LocatedParseError)
Error(kind, name, text, located) ==
    [kind |-> kind, name |-> name, text |-> text, located |-> located]
NoBuildError == Error("", "", <<>>, NoError)
Error_UnexpectedEof == Error("UnexpectedEof", "", <<>>, NoError)
Error_UnexpectedItem == Error("Parse", "UnexpectedItem", <<>>, NoError)
Error_DuplicatePropertyName(name) == Error("Parse", "DuplicatePropertyName", name, NoError)
Error_LocatedParse(e) == Error("LocatedParse", "", <<>>, e)

\* Result<DocValue, Error>, and "none" while the builder is still running.
NoResult == [st |-> "none", value |-> DocValue(NoneText, Value_Null), err |-> NoBuildError]
BuiltOk(dv) == [NoResult EXCEPT !.st = "ok", !.value = dv]
BuiltErr(e) == [NoResult EXCEPT !.st = "error", !.err = e]

\* IterableParser::next: Incomplete becomes None, a lexer error becomes
\* Error::LocatedParse.  The item carries the call of Parser::next it came
\* from (r), with the parser and the buffer as the call left them.
Item(r) ==
    [some |-> r.st # "incomplete", ok |-> r.st = "ok", ev |-> r.ev,
     err |-> IF r.st = "error" THEN Error_LocatedParse(r.err) ELSE NoBuildError,
     r |-> r]

IterableParser_next(p, buf) == Item(Parser_next(p, buf))

\* The activation of one of from_parser, parse_array and parse_object with
\* its local variables.  The builder is the stack of the live activations.
Frame(fn) ==
    [fn |-> fn, doc_comment_lines |-> <<>>, values |-> <<>>, map |-> <<>>,
     maybe_prop_name |-> NoneText, prop_dc |-> <<>>]

Running(frames) == [frames |-> frames, result |-> NoResult]

\* `?`: an error leaves every activation.
Fail(e) == [frames |-> <<>>, result |-> BuiltErr(e)]

SetTop(frames, frame) == [frames EXCEPT ![Len(frames)] = frame]

MaybeDoc(lines) == IF lines = <<>> THEN NoneText ELSE SomeText(Join(lines))

\* from_parser has a value: `return Ok(Self(maybe_doc_comment, value))`.
from_parser_return(frame, value) ==
    [frames |-> <<>>, result |-> BuiltOk(DocValue(MaybeDoc(frame.doc_comment_lines), value))]

\* parse_array or parse_object returns a value to the activation that called
\* it: from_parser returns it, parse_array pushes it.
Returned(frames, value) ==
    IF Last(frames).fn = "from_parser" THEN from_parser_return(Last(frames), value)
    ELSE Running(SetTop(frames, [Last(frames) EXCEPT !.values = Append(@, value)]))

\* `parser.next().ok_or(Error::UnexpectedEof)??`
Event_or(item, K(_)) ==
    IF ~item.some THEN Fail(Error_UnexpectedEof)
    ELSE IF ~item.ok THEN Fail(item.err)
    ELSE K(item.ev)

\* One turn of the loop of DocValue::from_parser.
from_parser_loop(frames, item) ==
    Event_or(item, LAMBDA event :
        IF event.type = "DocCommentLine"
        THEN Running(SetTop(frames,
                 [Last(frames) EXCEPT !.doc_comment_lines = Append(@, event.text)]))
        ELSE IF event.type = "SimpleValue"
        THEN from_parser_return(Last(frames), Value_from(event))
        ELSE IF event = Start("Array") THEN Running(Append(frames, Frame("parse_array")))
        ELSE IF event = Start("Object") THEN Running(Append(frames, Frame("parse_object")))
        ELSE Fail(Error_UnexpectedItem))

\* One turn of the loop of DocValue::parse_array.
parse_array_loop(frames, item) ==
    Event_or(item, LAMBDA event :
        IF event.type = "SimpleValue"
        THEN Running(SetTop(frames,
                 [Last(frames) EXCEPT !.values = Append(@, Value_from(event))]))
        ELSE IF event = Start("Array") THEN Running(Append(frames, Frame("parse_array")))
        ELSE IF event = Start("Object") THEN Running(Append(frames, Frame("parse_object")))
        ELSE IF event = End("Array")
        THEN Returned(Pop(frames), Value_Array(Last(frames).values))
        ELSE Fail(Error_UnexpectedItem))

\* A variant that keeps the doc-comment lines after attaching them.
parse_object_value_keep_dc(frames, frame, v) ==
    IF ~frame.maybe_prop_name.some THEN Fail(Error_UnexpectedItem)
    ELSE IF frame.maybe_prop_name.text \in DOMAIN frame.map
    THEN Fail(Error_DuplicatePropertyName(frame.maybe_prop_name.text))
    ELSE Running(SetTop(frames,
             [frame EXCEPT !.map = (frame.maybe_prop_name.text
                                        :> DocValue(MaybeDoc(frame.prop_dc), v)) @@ @,
                           !.maybe_prop_name = NoneText]))

\* The SimpleValue arm of parse_object.
parse_object_value(frames, frame, v) ==
    IF ~frame.maybe_prop_name.some THEN Fail(Error_UnexpectedItem)
    ELSE IF frame.maybe_prop_name.text \in DOMAIN frame.map
    THEN Fail(Error_DuplicatePropertyName(frame.maybe_prop_name.text))
    ELSE Running(SetTop(frames,
             [frame EXCEPT !.map = (frame.maybe_prop_name.text
                                        :> DocValue(MaybeDoc(frame.prop_dc), v)) @@ @,
                           !.maybe_prop_name = NoneText,
                           !.prop_dc = <<>>]))

\* One turn of the loop of DocValue::parse_object.
parse_object_loop(frames, item) ==
    Event_or(item, LAMBDA event :
        IF event.type = "DocCommentLine"
        THEN Running(SetTop(frames, [Last(frames) EXCEPT !.prop_dc = Append(@, event.text)]))
        ELSE IF event.type = "PropertyName"
        THEN Running(SetTop(frames,
                 [Last(frames) EXCEPT !.maybe_prop_name = SomeText(event.text)]))
        ELSE IF event.type = "SimpleValue"
        THEN parse_object_value(frames, Last(frames), Value_from(event))
        ELSE IF event = End("Object")
        THEN Returned(Pop(frames), Value_Object(Last(frames).map))
        ELSE Fail(Error_UnexpectedItem))

\* ------------------------------------------------------------------------
\* Documents written from a tree of values
\* ------------------------------------------------------------------------

\* A simple value as it is written, with the event the lexer's tests expect
\* for it.
Lit(text, ev) == [text |-> text, ev |-> ev]
NoLit == Lit(<<>>, NoEvent)

\* A node of the tree; doc is the lines of the doc comment written before it.
Node(type, lit, items, props) ==
    [type |-> type, lit |-> lit, items |-> items, props |-> props, doc |-> <<>>]
NoTree == Node("", NoLit, <<>>, <<>>)
Simple(lit) == Node("Simple", lit, <<>>, <<>>)
ArrayOf(items) == Node("Array", NoLit, items, <<>>)
ObjectOf(props) == Node("Object", NoLit, <<>>, props)
Prop(name, value) == [name |-> name, value |-> value, doc |-> <<>>]
Documented(t, lines) == [t EXCEPT !.doc = lines]

One == Lit(<<"1">>, SimpleNumber(Parsed("Unsigned", 1, 0)))
True == Lit(<<"t", "r", "u", "e">>, SimpleBoolean(TRUE))
Simples ==
    { One, True,
      Lit(<<"n", "u", "l", "l">>, SimpleNull),
      Lit(<<QUOTE, "x", QUOTE>>, SimpleString(<<"x">>)) }

Names == {<<"a">>, <<"b">>}

\* The arrays and objects that occur inside a document.
Nested ==
    { ArrayOf(<<>>),
      ArrayOf(<<Simple(One), Simple(True)>>),
      ObjectOf(<<Prop(<<"c">>, Simple(True))>>) }

Elements == {Simple(l) : l \in Simples} \cup Nested

\* The most items of the outer array, or properties of the outer object.
MaxItems == 2

SeqsUpTo(S, n) == UNION {[1..k -> S] : k \in 0..n}

\* The doc comments of the documents: none, one line, two lines.  A line is
\* the text between `///` and the newline.
DocComments == {<<>>, <<<<SP, "d">>>>, <<<<SP, "d">>, <<SP, "e">>>>}

\* Documents with doc comments: a documented root value, and objects of
\* documented properties.
DocumentedTrees ==
    {Documented(Simple(One), d) : d \in DocComments}
    \cup {Documented(ObjectOf(s), d) :
             s \in SeqsUpTo({Documented(Prop(n, Simple(One)), c) :
                                 n \in Names, c \in DocComments}, MaxItems),
             d \in {<<>>, <<<<SP, "d">>>>}}

Trees ==
    {Simple(l) : l \in Simples}
    \cup {ArrayOf(s) : s \in SeqsUpTo(Elements, MaxItems)}
    \cup {ObjectOf(s) : s \in SeqsUpTo({Prop(n, v) : n \in Names, v \in Elements}, MaxItems)}
    \cup DocumentedTrees

\* The text of a tree: `[ v1, v2 ]`, `{ n1 v1, n2 v2 }`.
RECURSIVE FmtDoc(_)
FmtDoc(lines) ==
    IF lines = <<>> THEN <<>>
    ELSE <<"/", "/", "/">> \o Head(lines) \o <<NL>> \o FmtDoc(Tail(lines))

RECURSIVE FmtValue(_)
RECURSIVE FmtItems(_)
RECURSIVE FmtProps(_)
FmtValue(t) ==
    IF t.type = "Simple" THEN t.lit.text
    ELSE IF t.type = "Array"
    THEN IF t.items = <<>> THEN <<"[", SP, "]">>
         ELSE <<"[", SP>> \o FmtItems(t.items) \o <<SP, "]">>
    ELSE IF t.props = <<>> THEN <<"{", SP, "}">>
         ELSE <<"{", SP>> \o FmtProps(t.props) \o <<SP, "}">>
FmtItems(items) ==
    IF Len(items) = 1 THEN FmtValue(items[1])
    ELSE FmtValue(items[1]) \o <<",", SP>> \o FmtItems(Tail(items))
FmtProps(props) ==
    FmtDoc(props[1].doc) \o props[1].name \o <<SP>> \o FmtValue(props[1].value)
    \o (IF Len(props) = 1 THEN <<>> ELSE <<",", SP>> \o FmtProps(Tail(props)))

\* A document: the doc comment of the root value, then the value.
Fmt(t) == FmtDoc(t.doc) \o FmtValue(t)

\* The events a tree is written to produce.
DocEvents(lines) == [i \in DOMAIN lines |-> DocCommentLine(lines[i] \o <<NL>>)]

RECURSIVE ExpectedEvents(_)
RECURSIVE ItemsEvents(_)
RECURSIVE PropsEvents(_)
ExpectedEvents(t) ==
    DocEvents(t.doc)
    \o (IF t.type = "Simple" THEN <<t.lit.ev>>
        ELSE IF t.type = "Array"
        THEN <<Start("Array")>> \o ItemsEvents(t.items) \o <<End("Array")>>
        ELSE <<Start("Object")>> \o PropsEvents(t.props) \o <<End("Object")>>)
ItemsEvents(items) ==
    IF items = <<>> THEN <<>> ELSE ExpectedEvents(items[1]) \o ItemsEvents(Tail(items))
PropsEvents(props) ==
    IF props = <<>> THEN <<>>
    ELSE DocEvents(props[1].doc) \o <<PropertyName(props[1].name)>>
         \o ExpectedEvents(props[1].value)
         \o PropsEvents(Tail(props))

PropNames(t) == {t.props[i].name : i \in DOMAIN t.props}
PropNamed(t, name) == t.props[CHOOSE i \in DOMAIN t.props : t.props[i].name = name]
PropValue(t, name) == PropNamed(t, name).value

\* No object of the tree names a property twice.
RECURSIVE DistinctNames(_)
DistinctNames(t) ==
    /\ \A i, j \in DOMAIN t.props : t.props[i].name = t.props[j].name => i = j
    /\ \A i \in DOMAIN t.props : DistinctNames(t.props[i].value)
    /\ \A i \in DOMAIN t.items : DistinctNames(t.items[i])

\* The doc a doc comment is written to give: none without lines, else the
\* lines in order, each with its newline.
RECURSIVE ExpectedText(_)
ExpectedText(lines) ==
    IF lines = <<>> THEN <<>> ELSE Head(lines) \o <<NL>> \o ExpectedText(Tail(lines))
ExpectedDoc(lines) == IF lines = <<>> THEN NoneText ELSE SomeText(ExpectedText(lines))

\* The Value a tree is written to build, given that its names are distinct.
RECURSIVE ToValue(_)
ToValue(t) ==
    IF t.type = "Simple" THEN Value_from(t.lit.ev)
    ELSE IF t.type = "Array"
    THEN Value_Array([i \in DOMAIN t.items |-> ToValue(t.items[i])])
    ELSE Value_Object([n \in PropNames(t) |->
             DocValue(ExpectedDoc(PropNamed(t, n).doc), ToValue(PropValue(t, n)))])

ToDocValue(t) == DocValue(ExpectedDoc(t.doc), ToValue(t))

\* ------------------------------------------------------------------------
\* The UTF-8 decoder (encoding.rs).  Bytes are the integers 0..255 and the
\* source is a sequence of bytes; position p of the source is src[p + 1].
\* ------------------------------------------------------------------------

START_LINE == 1

\* The lookup table of character widths, by lead byte.
UTF8_CHAR_WIDTH(b) ==
    IF b < 128 THEN 1
    ELSE IF b < 194 THEN 0
    ELSE IF b < 224 THEN 2
    ELSE IF b < 240 THEN 3
    ELSE IF b < 245 THEN 4
    ELSE 0

Utf8Decoder_from(s) == [src |-> s, pos |-> 0, len |-> Len(s), line |-> START_LINE]

\* Option<Result<&[u8], Located<Error>>>
Decoded_None == [some |-> FALSE, ok |-> FALSE, bytes |-> <<>>, line |-> 0, err |-> ""]
Decoded_Ok(bytes) == [some |-> TRUE, ok |-> TRUE, bytes |-> bytes, line |-> 0, err |-> ""]
located_err(line, e) == [some |-> TRUE, ok |-> FALSE, bytes |-> <<>>, line |-> line, err |-> e]

Utf8Decoder_eof(d) == d.pos >= d.len

\* The lead byte at the cursor and the width the table gives it.
LeadByte(d) == d.src[d.pos + 1]
LeadWidth(d) == UTF8_CHAR_WIDTH(LeadByte(d))

\* A variant of next that counts the line of a newline it could not return.
Utf8Decoder_next_count_unread(d) ==
    IF Utf8Decoder_eof(d) THEN [d |-> d, item |-> Decoded_None]
    ELSE IF d.pos + LeadWidth(d) >= d.len
    THEN [d |-> [d EXCEPT !.line = IF LeadByte(d) = 10 THEN d.line + 1 ELSE d.line],
          item |-> located_err(d.line, "UnexpectedEof")]
    ELSE [d |-> [d EXCEPT !.pos = d.pos + LeadWidth(d),
                          !.line = IF LeadWidth(d) = 1 /\ LeadByte(d) = 10
                                   THEN d.line + 1 ELSE d.line],
          item |-> Decoded_Ok(SubSeq(d.src, d.pos + 1, d.pos + LeadWidth(d)))]

\* Iterator::next: the decoder after the call, and what the call returned.
Utf8Decoder_next(d) ==
    IF Utf8Decoder_eof(d) THEN [d |-> d, item |-> Decoded_None]
    ELSE IF d.pos + LeadWidth(d) >= d.len
    THEN [d |-> d, item |-> located_err(d.line, "UnexpectedEof")]
    ELSE [d |-> [d EXCEPT !.pos = d.pos + LeadWidth(d),
                          !.line = IF LeadWidth(d) = 1 /\ LeadByte(d) = 10
                                   THEN d.line + 1 ELSE d.line],
          item |-> Decoded_Ok(SubSeq(d.src, d.pos + 1, d.pos + LeadWidth(d)))]

\* Decoder::slice: the bytes from position start up to position end, or None.
\* Called with start <= end.
Utf8Decoder_slice(d, start, end) ==
    IF end >= d.len THEN Decoded_None
    ELSE Decoded_Ok(SubSeq(d.src, start + 1, end))

\* Decoder::peek: what the call returned; the decoder is not changed.
Utf8Decoder_peek(d) ==
    IF d.pos >= d.len THEN Decoded_None
    ELSE IF d.pos + LeadWidth(d) >= d.len
    THEN located_err(d.line, "IncompleteUtf8Char")
    ELSE Decoded_Ok(SubSeq(d.src, d.pos + 1, d.pos + LeadWidth(d)))

\* ------------------------------------------------------------------------
\* The rendering context (gunny, context.rs): the registry of templates
\* ------------------------------------------------------------------------

\* A map, as the set of its entries <<key, value>>.
EmptyMap == {}
Keys(map) == {e[1] : e \in map}
Get(map, k) == (CHOOSE e \in map : e[1] = k)[2]
Insert(map, k, v) == {e \in map : e[1] # k} \cup {<<k, v>>}

\* hash::sha256: the digest of a text.  Distinct texts have distinct digests.
sha256(s) == <<"sha256", s>>

\* Whether Handlebars compiles a template: it rejects an expression that is
\* opened and not closed.
Compiles(t) == t # "{{"

\* Context::new: no template is registered.  hb maps the names of the
\* compiled templates to their content, template_hashes maps content hashes
\* to names.
Context_new == [hb |-> EmptyMap, template_hashes |-> EmptyMap]

Registered_Ok == [ok |-> TRUE, err |-> "", name |-> ""]
Registered_Err(e, n) == [ok |-> FALSE, err |-> e, name |-> n]

\* Context::register_template(name, template): the context after the call
\* (c) and what the call returned (r).
Context_register_template(c, n, t) ==
    LET template_hash == sha256(t)
        template_name_for_hash ==
            IF template_hash \in Keys(c.template_hashes)
            THEN Get(c.template_hashes, template_hash)
            ELSE ""
        hashed == [c EXCEPT !.template_hashes = Insert(@, template_hash, n)]
    IN  IF n \in Keys(c.hb)
        THEN IF template_name_for_hash = n
             THEN [c |-> c, r |-> Registered_Ok]
             ELSE [c |-> c, r |-> Registered_Err("TemplateAlreadyExists", n)]
        ELSE IF Compiles(t)
        THEN [c |-> [hashed EXCEPT !.hb = Insert(@, n, t)], r |-> Registered_Ok]
        ELSE [c |-> hashed, r |-> Registered_Err("TemplateError", n)]

NoRegistration ==
    [called |-> FALSE, name |-> "", template |-> "", pre |-> Context_new,
     r |-> Registered_Ok]

\* ------------------------------------------------------------------------
\* 64-bit integers (gunnyscript number.rs, gunny value.rs)
\* ------------------------------------------------------------------------

\* A 64-bit integer, as its four 16-bit limbs from the most significant to
\* the least: a u64 as they stand, an i64 in two's complement.
Zero64 == <<0, 0, 0, 0>>
i64_MAX == <<32767, 65535, 65535, 65535>>

\* x < y, for two u64.
RECURSIVE u64_lt(_, _)
u64_lt(x, y) ==
    IF x = <<>> THEN FALSE
    ELSE IF Head(x) # Head(y) THEN Head(x) < Head(y)
    ELSE u64_lt(Tail(x), Tail(y))

\* x <= y, for two u64.
u64_le(x, y) == x = y \/ u64_lt(x, y)

\* `u as i64`: the same bits.
as_i64_cast(u) == u

NoneInt == [some |-> FALSE, v |-> Zero64]
SomeInt(v) == [some |-> TRUE, v |-> v]

\* A Number: Unsigned(u64), Signed(i64), or Fixed with its integer part and
\* its fraction, 64 bits each.
WideNumber(variant, bits, frac) == [variant |-> variant, bits |-> bits, frac |-> frac]

\* Number::as_i64.
Number_as_i64(n) ==
    IF n.variant = "Unsigned"
    THEN IF u64_lt(n.bits, i64_MAX) THEN SomeInt(as_i64_cast(n.bits)) ELSE NoneInt
    ELSE IF n.variant = "Signed" THEN SomeInt(n.bits)
    ELSE IF n.frac = Zero64 THEN SomeInt(n.bits) ELSE NoneInt

\* A gunny Value: Option(None), Option(Some(inner)), Signed, Unsigned, or a
\* value of another variant.
Value_None == [variant |-> "Option", some |-> FALSE]
Value_Some(inner) == [variant |-> "Option", some |-> TRUE, inner |-> inner]
Value_Int(variant, bits) == [variant |-> variant, bits |-> bits]
Value_Bool(b) == [variant |-> "Bool", b |-> b]

\* Value::as_signed.
RECURSIVE Value_as_signed(_)
Value_as_signed(v) ==
    IF v.variant = "Option"
    THEN IF v.some THEN Value_as_signed(v.inner) ELSE NoneInt
    ELSE IF v.variant = "Signed" THEN SomeInt(v.bits)
    ELSE IF v.variant = "Unsigned"
    THEN IF u64_lt(v.bits, i64_MAX) THEN SomeInt(as_i64_cast(v.bits)) ELSE NoneInt
    ELSE NoneInt

\* ------------------------------------------------------------------------
\* Value types (gunny, value.rs)
\* ------------------------------------------------------------------------

\* A ValueType, as the sequence of its variants from the outermost to the
\* innermost: Option, Array and Map box one inner type, the others none.
SimpleTypes == {"Bool", "Signed", "Unsigned", "Fixed", "String", "Date", "DateTime"}
BoxingTypes == {"Option", "Array", "Map"}

ValueType_Unknown == <<"Unknown">>
ValueType_Simple(v) == <<v>>
ValueType_Boxing(v, inner) == <<v>> \o inner

Variant(t) == Head(t)
Inner(t) == Tail(t)

Returns(b) == [panic |-> FALSE, value |-> b]
Panics == [panic |-> TRUE, value |-> FALSE]

\* ValueType::relaxed_eq: the boolean it returns, or that it panics.
RECURSIVE ValueType_relaxed_eq(_, _)
ValueType_relaxed_eq(a, other) ==
    IF a = other THEN Returns(TRUE)
    ELSE IF Variant(a) = "Unknown" THEN Returns(TRUE)
    ELSE IF Variant(other) = "Unknown" THEN Returns(TRUE)
    ELSE IF Variant(a) = "Option"
    THEN IF Variant(other) = "Option"
         THEN ValueType_relaxed_eq(Inner(a), Inner(other))
         ELSE ValueType_relaxed_eq(Inner(a), other)
    ELSE IF Variant(a) = "Array"
    THEN IF Variant(other) = "Array"
         THEN ValueType_relaxed_eq(Inner(a), Inner(other))
         ELSE Returns(FALSE)
    ELSE IF Variant(a) = "Map"
    THEN IF Variant(other) = "Map"
         THEN ValueType_relaxed_eq(Inner(a), Inner(other))
         ELSE Returns(FALSE)
    ELSE Panics

\* The SQLite name of a type that is neither Unknown nor an Option.
SqliteName(v) ==
    CASE v = "Bool" -> <<"B", "O", "O", "L">>
      [] v \in {"Signed", "Unsigned"} -> <<"I", "N", "T">>
      [] v = "Fixed" -> <<"R", "E", "A", "L">>
      [] v = "Date" -> <<"D", "A", "T", "E">>
      [] v = "DateTime" -> <<"D", "A", "T", "E", "T", "I", "M", "E">>
      [] v \in {"String", "Array", "Map"} -> <<"T", "E", "X", "T">>

NOT_NULL == <<" ", "N", "O", "T", " ", "N", "U", "L", "L">>

SqliteOk(s) == [ok |-> TRUE, text |-> s, err |-> ""]
SqliteErr(e) == [ok |-> FALSE, text |-> <<>>, err |-> e]

\* ValueType::to_sqlite_nullable: the name of the column type followed by
\* " NOT NULL" unless nullable; an Option takes the text of its inner type
\* made nullable.
RECURSIVE ValueType_to_sqlite_nullable(_, _)
ValueType_to_sqlite_nullable(t, nullable) ==
    IF Variant(t) = "Unknown" THEN SqliteErr("UnknownValueType")
    ELSE IF Variant(t) = "Option"
    THEN IF ~ValueType_to_sqlite_nullable(Inner(t), TRUE).ok
         THEN ValueType_to_sqlite_nullable(Inner(t), TRUE)
         ELSE SqliteOk(ValueType_to_sqlite_nullable(Inner(t), TRUE).text
                           \o (IF nullable THEN <<>> ELSE NOT_NULL))
    ELSE SqliteOk(SqliteName(Variant(t)) \o (IF nullable THEN <<>> ELSE NOT_NULL))

\* ValueType::to_sqlite.
ValueType_to_sqlite(t) == ValueType_to_sqlite_nullable(t, FALSE)

\* ------------------------------------------------------------------------
\* The streaming session: a caller feeds a text to one parser in two chunks
\* ------------------------------------------------------------------------

VARIABLES
    doc,      \* the whole input
    valid,    \* whether doc is one of the well-formed documents
    fed,      \* how many characters of doc the caller has received so far
    start,    \* how many characters earlier calls have consumed
    parser,   \* the Parser
    events,   \* what the calls returned so far: events, and the error if any
    last,     \* the last call: its outcome, and the parser and buffer it began with
    pc,       \* "run", "starved" (Incomplete, more input to come), "build" or "done"
    tree,     \* the tree doc was written from, for the builder's documents
    frames,   \* the builder's live activations, the innermost last
    built,    \* what DocValue::parse_utf8 returned, once it has
    decoder,  \* the Utf8Decoder
    decoded,  \* the decoder's last call: which, the decoder before it, its result
    numtext,  \* the text given to Number::from_str
    number,   \* what Number::from_str returned, once it has
    context,  \* the Context: its compiled templates and its content hashes
    registered, \* the last call of Context::register_template
    operands, \* the arguments of a call on a gunny value or value type
    answer    \* what that call returned, once it has

vars == <<doc, valid, fed, start, parser, events, last, pc, tree, frames, built,
          decoder, decoded, numtext, number, context, registered, operands, answer>>

\* The variables of the gunny crate.
gunny == <<context, registered, operands, answer>>

\* The variables of the decoder and of the number parser, which the lexer's
\* sessions and the builder leave alone.
others == <<decoder, decoded, numtext, number, gunny>>

\* The variables of the lexer's sessions and of the builder.
session == <<doc, valid, fed, start, parser, events, last, pc, tree, frames, built>>

NoDecoded ==
    [op |-> "none", pre |-> Utf8Decoder_from(<<>>), item |-> Decoded_None,
     start |-> 0, end |-> 0]
NoNumber == [st |-> "none", r |-> Failed("", "")]
NoAnswer == [st |-> "none", op |-> "", r |-> <<>>]

GunnyIdle ==
    /\ context = Context_new
    /\ registered = NoRegistration
    /\ operands = <<>>
    /\ answer = NoAnswer

Idle ==
    /\ decoder = Utf8Decoder_from(<<>>)
    /\ decoded = NoDecoded
    /\ numtext = <<>>
    /\ number = NoNumber
    /\ GunnyIdle

\* The longest text of the exhaustive part of the inputs.
MaxLen == 3

Alphabet == {QUOTE, BSLASH, NL, SP, ",", "[", "]", "{", "}", "1", "a"}

Texts(n) == UNION {[1..k -> Alphabet] : k \in 0..n}

\* Well-formed documents.
ValidDocs ==
    { <<"t", "r", "u", "e">>,
      <<"f", "a", "l", "s", "e">>,
      <<"n", "u", "l", "l">>,
      <<"1", "2">>,
      <<"2", "0", "2", "0", "-", "0", "1", "-", "0", "2">>,
      <<QUOTE, "a", BSLASH, QUOTE, "b", QUOTE>>,
      <<"[", SP, "1", ",", SP, "2", SP, "]">>,
      <<"{", SP, "a", SP, "1", ",", SP, "b", SP, "t", "r", "u", "e", SP, "}">>,
      <<"[", SP, "{", SP, "a", SP, "1", SP, "}", ",", SP, "2", SP, "]">>,
      <<"{", SP, "a", SP, QUOTE, "x", QUOTE, SP, "}">>,
      <<"[", SP, "1", SP, ",", SP, "2", SP, "]">>,
      <<"{", SP, "a", SP, "[", SP, "1", SP, "]", ",", SP, "b", SP, "2", SP, "}">>,
      <<"/", "/", SP, "c", NL, "[", SP, "1", SP, "]">>,
      <<"[", SP, "1", ",", NL, NL, "2", SP, "]">> }

\* Further inputs: malformed documents and documents cut short.
OtherDocs ==
    { <<"[", SP, "1", SP, ",">>,
      <<"1", NL, NL, QUOTE, "a", QUOTE>>,
      <<"{", SP, "a", SP, "]">>,
      <<"[", SP, "}", SP, "]">>,
      <<"/", "/", "/", SP, "d", NL, NL, "1">>,
      <<"{", SP, "a", SP, "1", SP, "]", SP, "}">>,
      <<"{", SP, "a", SP, "[", SP, "]", ",", SP, "b", SP, "]", SP, "}">>,
      <<QUOTE, "a", BSLASH, "q", QUOTE>>,
      <<"{", SP, "/", "/", "/", SP, "d", NL, "}">>,
      <<NL, NL, NL, NL, "1">>,
      <<"{", "}", "a", SP, "1">>,
      <<"[", "{", "}", "a", SP, "1">> }

\* The identifiers of the lexer's tests.
Identifiers ==
    { <<"n", "u", "l", "l">>, <<"t", "r", "u", "e">>, <<"f", "a", "l", "s", "e">> }

\* The longest run of spaces and tabs around an identifier.
MaxPad == 2

\* What is written before or after an identifier: a run of spaces and tabs,
\* or a single newline.
Paddings == (UNION {[1..k -> {SP, TAB}] : k \in 0..MaxPad}) \cup {<<NL>>}

PaddedIdentifiers == {l \o i \o t : l \in Paddings, i \in Identifiers, t \in Paddings}

NoCall ==
    [called |-> FALSE, st |-> "", ev |-> NoEvent, err |-> NoError, ch |-> NoChar,
     pre |-> Parser_default, start |-> 0, fed |-> 0, retry |-> FALSE, prevfed |-> 0]

Call(r) ==
    [called |-> TRUE, st |-> r.st, ev |-> r.ev, err |-> r.err, ch |-> r.ch,
     pre |-> parser, start |-> start, fed |-> fed, retry |-> last.st = "incomplete",
     prevfed |-> last.fed]

\* The buffer of the next call: the characters received and not consumed.
Buffer == SubSeq(doc, start + 1, fed)

Init ==
    /\ \/ doc \in ValidDocs \cup PaddedIdentifiers /\ valid = TRUE
       \/ doc \in OtherDocs \cup Texts(MaxLen) /\ valid = FALSE
    /\ fed \in 0..Len(doc)
    /\ start = 0
    /\ parser = Parser_default
    /\ events = <<>>
    /\ last = NoCall
    /\ pc = "run"
    /\ tree = NoTree
    /\ frames = <<>>
    /\ built = NoResult
    /\ Idle

\* The call of Parser::next on the buffer.
CallNext == Parser_next(parser, Buffer)

\* Parser::next returns an event; the buffer has advanced past what it read.
TakeEvent(r) ==
    /\ r.st = "ok"
    /\ parser' = r.m.p
    /\ start' = fed - Len(r.m.b)
    /\ events' = Append(events, Outcome(r))
    /\ last' = Call(r)
    /\ UNCHANGED <<doc, valid, fed, pc, tree, frames, built, others>>

NextEvent == pc = "run" /\ TakeEvent(CallNext)

\* Parser::next returns Incomplete.  The caller keeps the bytes the buffer
\* held when the call began, to retry with them once more bytes arrive.
TakeIncomplete(r) ==
    /\ r.st = "incomplete"
    /\ parser' = r.m.p
    /\ last' = Call(r)
    /\ pc' = IF fed < Len(doc) THEN "starved" ELSE "done"
    /\ UNCHANGED <<doc, valid, fed, start, events, tree, frames, built, others>>

NextIncomplete == pc = "run" /\ TakeIncomplete(CallNext)

\* Parser::next returns an error, which ends the session; the buffer has
\* advanced past what the call read.
TakeError(r) ==
    /\ r.st = "error"
    /\ parser' = r.m.p
    /\ start' = fed - Len(r.m.b)
    /\ events' = Append(events, Outcome(r))
    /\ last' = Call(r)
    /\ pc' = "done"
    /\ UNCHANGED <<doc, valid, fed, tree, frames, built, others>>

NextError == pc = "run" /\ TakeError(CallNext)

\* The rest of the input arrives and is appended to the kept bytes.
Feed ==
    /\ pc = "starved"
    /\ fed' = Len(doc)
    /\ pc' = "run"
    /\ UNCHANGED <<doc, valid, start, parser, events, last, tree, frames, built, others>>

Next == NextEvent \/ NextIncomplete \/ NextError \/ Feed

Spec == Init /\ [][Next]_vars

\* ------------------------------------------------------------------------
\* The streaming session on texts that are one number, date or date-time
\* token, alone or as the element of an array
\* ------------------------------------------------------------------------

\* The longest token of the exhaustive part of the tokens.
MaxToken == 3

TokenAlphabet == {"0", "1", "-", ":", ".", "a"}

Tokens ==
    (UNION {[1..k -> TokenAlphabet] : k \in 1..MaxToken})
    \cup { <<"1", "-", "2", "-", "3">>,
           <<"1", "-", "2", "-", "3", "-", "4">>,
           <<"+", "1">>,
           <<"+", "1", "2">>,
           <<"2", "0", "2", "0", "-", "0", "1", "-", "0", "2">>,
           <<"2", "0", "2", "0", "-", "1", "3", "-", "0", "2">>,
           <<"-", "2", "0", "2", "0", "-", "0", "1", "-", "0", "2">>,
           <<"2", "0", "2", "0", "-", "0", "1", "-", "0", "2", "T",
             "0", "3", ":", "0", "4", ":", "0", "5", "Z">>,
           <<"-", "2", "0", "2", "0", "-", "0", "1", "-", "0", "2", "T",
             "0", "3", ":", "0", "4", ":", "0", "5", "Z">> }

TokenDocs ==
    {t : t \in Tokens} \cup {t \o <<SP>> : t \in Tokens}
    \cup {<<"[", SP>> \o t \o <<SP, "]">> : t \in Tokens}

InitToken ==
    /\ doc \in TokenDocs
    /\ valid = FALSE
    /\ fed \in 0..Len(doc)
    /\ start = 0
    /\ parser = Parser_default
    /\ events = <<>>
    /\ last = NoCall
    /\ pc = "run"
    /\ tree = NoTree
    /\ frames = <<>>
    /\ built = NoResult
    /\ Idle

SpecToken == InitToken /\ [][Next]_vars

\* ------------------------------------------------------------------------
\* The streaming session on texts that open a literal string
\* ------------------------------------------------------------------------

\* The most characters after the first `#` in the exhaustive part.
MaxLiteral == 5

LiteralAlphabet == {"#", QUOTE, BSLASH, "a"}

\* Longer literal strings: a plain one, and one whose content holds shorter
\* fences.
LiteralExamples ==
    { <<"#", QUOTE, "a", "b", "c", QUOTE, "#">>,
      <<"#", "#", QUOTE, "a", "#", QUOTE, "b", QUOTE, "#", "c", QUOTE, "#", "#">> }

LiteralDocs ==
    {<<"#">> \o t : t \in UNION {[1..k -> LiteralAlphabet] : k \in 0..MaxLiteral}}
    \cup LiteralExamples

InitLiteral ==
    /\ doc \in LiteralDocs
    /\ valid = FALSE
    /\ fed \in 0..Len(doc)
    /\ start = 0
    /\ parser = Parser_default
    /\ events = <<>>
    /\ last = NoCall
    /\ pc = "run"
    /\ tree = NoTree
    /\ frames = <<>>
    /\ built = NoResult
    /\ Idle

SpecLiteral == InitLiteral /\ [][Next]_vars

\* ------------------------------------------------------------------------
\* The streaming session on comments and blank lines, at the top level, in
\* an array, in an object and after a property name
\* ------------------------------------------------------------------------

\* The most characters after the opening of the context.
MaxComment == 5

CommentAlphabet == {"/", "*", NL, "a"}

Contexts == {<<>>, <<"[">>, <<"{">>, <<"{", "a", SP>>}

\* Comments followed by a token.
CommentExamples ==
    { <<"/", "*", "/", "a", NL, "*", "/", "[">>,
      <<"[", "/", "*", SP, "a", SP, "*", "/", "1", SP, "]">>,
      <<"/", "/", SP, "a", NL, NL, "1">> }

CommentDocs ==
    {c \o t : c \in Contexts, t \in UNION {[1..k -> CommentAlphabet] : k \in 0..MaxComment}}
    \cup CommentExamples

InitComment ==
    /\ doc \in CommentDocs
    /\ valid = FALSE
    /\ fed \in 0..Len(doc)
    /\ start = 0
    /\ parser = Parser_default
    /\ events = <<>>
    /\ last = NoCall
    /\ pc = "run"
    /\ tree = NoTree
    /\ frames = <<>>
    /\ built = NoResult
    /\ Idle

SpecComment == InitComment /\ [][Next]_vars

\* ------------------------------------------------------------------------
\* Building a document: DocValue::parse_utf8 on the first `fed` characters
\* of a written tree, all of them in the buffer from the start
\* ------------------------------------------------------------------------

InitBuild ==
    /\ tree \in Trees
    /\ doc = Fmt(tree)
    /\ valid = DistinctNames(tree)
    /\ fed \in 0..Len(doc)
    /\ start = 0
    /\ parser = Parser_default
    /\ events = <<>>
    /\ last = NoCall
    /\ pc = "build"
    /\ frames = <<Frame("from_parser")>>
    /\ built = NoResult
    /\ Idle

\* The effect of one turn of a builder loop: the lexer has advanced, and the
\* builder goes on (b.result is "none") or parse_utf8 has returned.
Turn(b, item) ==
    /\ parser' = item.r.m.p
    /\ start' = fed - Len(item.r.m.b)
    /\ events' = IF item.some THEN Append(events, Outcome(item.r)) ELSE events
    /\ last' = Call(item.r)
    /\ frames' = b.frames
    /\ built' = b.result
    /\ pc' = IF b.result.st = "none" THEN "build" ELSE "done"
    /\ UNCHANGED <<doc, valid, fed, tree, others>>

from_parser_turn(item) == Turn(from_parser_loop(frames, item), item)
parse_array_turn(item) == Turn(parse_array_loop(frames, item), item)
parse_object_turn(item) == Turn(parse_object_loop(frames, item), item)

from_parser ==
    /\ pc = "build"
    /\ Last(frames).fn = "from_parser"
    /\ from_parser_turn(IterableParser_next(parser, Buffer))

parse_array ==
    /\ pc = "build"
    /\ Last(frames).fn = "parse_array"
    /\ parse_array_turn(IterableParser_next(parser, Buffer))

parse_object ==
    /\ pc = "build"
    /\ Last(frames).fn = "parse_object"
    /\ parse_object_turn(IterableParser_next(parser, Buffer))

NextBuild == from_parser \/ parse_array \/ parse_object

SpecBuild == InitBuild /\ [][NextBuild]_vars

\* ------------------------------------------------------------------------
\* Building a document written with a blank line in it
\* ------------------------------------------------------------------------

\* The text with a blank line before it.
BlankBefore(s) == <<NL, NL>> \o s

\* The text with a blank line after each `,`: between two elements of an
\* array, or two properties of an object.
RECURSIVE BlankBetween(_)
BlankBetween(s) ==
    IF s = <<>> THEN <<>>
    ELSE IF Head(s) = "," THEN <<",", NL, NL>> \o BlankBetween(Tail(s))
    ELSE <<Head(s)>> \o BlankBetween(Tail(s))

WithBlankLine(s) ==
    {BlankBefore(s)} \cup (IF Contains(s, ",") THEN {BlankBetween(s)} ELSE {})

InitBlank ==
    /\ tree \in Trees
    /\ doc \in WithBlankLine(Fmt(tree))
    /\ valid = DistinctNames(tree)
    /\ fed \in 0..Len(doc)
    /\ start = 0
    /\ parser = Parser_default
    /\ events = <<>>
    /\ last = NoCall
    /\ pc = "build"
    /\ frames = <<Frame("from_parser")>>
    /\ built = NoResult
    /\ Idle

SpecBlank == InitBlank /\ [][NextBuild]_vars

\* The state of the lexer's variables while another component runs.
SessionIdle ==
    /\ doc = <<>>
    /\ valid = FALSE
    /\ fed = 0
    /\ start = 0
    /\ parser = Parser_default
    /\ events = <<>>
    /\ last = NoCall
    /\ pc = "done"
    /\ tree = NoTree
    /\ frames = <<>>
    /\ built = NoResult

\* ------------------------------------------------------------------------
\* Decoding: a Utf8Decoder over a byte sequence, read with next and peek
\* ------------------------------------------------------------------------

\* The longest source of the decoder.
MaxBytes == 3

\* A newline, a letter, a continuation byte, the lead bytes of a two-, a
\* three- and a four-byte character, and a byte that is never legal.
SomeBytes == {10, 97, 128, 195, 226, 240, 255}

Sources == UNION {[1..k -> SomeBytes] : k \in 0..MaxBytes}

InitDecode ==
    /\ SessionIdle
    /\ \E s \in Sources : decoder = Utf8Decoder_from(s)
    /\ decoded = NoDecoded
    /\ numtext = <<>>
    /\ number = NoNumber
    /\ GunnyIdle

TakeNext(r) ==
    /\ decoder' = r.d
    /\ decoded' = [op |-> "next", pre |-> decoder, item |-> r.item, start |-> 0, end |-> 0]
    /\ UNCHANGED <<session, numtext, number, gunny>>

DecoderNext == TakeNext(Utf8Decoder_next(decoder))

DecoderPeek ==
    /\ decoded' = [op |-> "peek", pre |-> decoder, item |-> Utf8Decoder_peek(decoder),
                    start |-> 0, end |-> 0]
    /\ UNCHANGED <<session, decoder, numtext, number, gunny>>

\* slice is called with any range that is in order, within the source or
\* reaching one position past its end.
DecoderSlice ==
    \E end \in 0..(decoder.len + 1) : \E from \in 0..end :
        /\ decoded' = [op |-> "slice", pre |-> decoder,
                        item |-> Utf8Decoder_slice(decoder, from, end),
                        start |-> from, end |-> end]
        /\ UNCHANGED <<session, decoder, numtext, number, gunny>>

NextDecode == DecoderNext \/ DecoderPeek \/ DecoderSlice

SpecDecode == InitDecode /\ [][NextDecode]_vars

\* ------------------------------------------------------------------------
\* Parsing a number: Number::from_str on a text
\* ------------------------------------------------------------------------

\* The longest text given to Number::from_str.
MaxNumLen == 3

NumChars == {"0", "1", "7", "8", "f", "x", ".", "-", "+"}

NumTexts == UNION {[1..k -> NumChars] : k \in 0..MaxNumLen}

InitNumber ==
    /\ SessionIdle
    /\ decoder = Utf8Decoder_from(<<>>)
    /\ decoded = NoDecoded
    /\ numtext \in NumTexts
    /\ number = NoNumber
    /\ GunnyIdle

TakeNumber(r) ==
    /\ number' = [st |-> "done", r |-> r]
    /\ UNCHANGED <<session, decoder, decoded, numtext, gunny>>

from_str == number.st = "none" /\ TakeNumber(Number_from_str(numtext))

NextNumber == from_str

SpecNumber == InitNumber /\ [][NextNumber]_vars

\* ------------------------------------------------------------------------
\* Registering templates: Context::register_template called again and again
\* ------------------------------------------------------------------------

\* The decoder and the number parser at rest.
OthersIdle ==
    /\ decoder = Utf8Decoder_from(<<>>)
    /\ decoded = NoDecoded
    /\ numtext = <<>>
    /\ number = NoNumber

\* The names and the contents the templates are registered with; the last
\* content is one Handlebars does not compile.
TemplateNames == {"", "a", "b"}
TemplateContents == {"x", "y", "{{"}

InitRegister ==
    /\ SessionIdle
    /\ OthersIdle
    /\ GunnyIdle

TakeRegistration(n, t, res) ==
    /\ context' = res.c
    /\ registered' = [called |-> TRUE, name |-> n, template |-> t, pre |-> context,
                      r |-> res.r]
    /\ UNCHANGED <<session, decoder, decoded, numtext, number, operands, answer>>

register_template ==
    \E n \in TemplateNames : \E t \in TemplateContents :
        TakeRegistration(n, t, Context_register_template(context, n, t))

NextRegister == register_template

SpecRegister == InitRegister /\ [][NextRegister]_vars

\* ------------------------------------------------------------------------
\* Comparing value types: ValueType::relaxed_eq on a pair of types
\* ------------------------------------------------------------------------

\* The deepest boxing of the value types.
MaxTypeDepth == 2

RECURSIVE TypesOfDepth(_)
TypesOfDepth(k) ==
    IF k = 0 THEN {ValueType_Unknown} \cup {ValueType_Simple(v) : v \in SimpleTypes}
    ELSE {ValueType_Boxing(v, t) : v \in BoxingTypes, t \in TypesOfDepth(k - 1)}

ValueTypes == UNION {TypesOfDepth(k) : k \in 0..MaxTypeDepth}

\* Everything but the variables of a call on a value or a value type at rest.
NoContext ==
    /\ SessionIdle
    /\ OthersIdle
    /\ context = Context_new
    /\ registered = NoRegistration

InitRelaxedEq ==
    /\ NoContext
    /\ operands \in ValueTypes \X ValueTypes
    /\ answer = NoAnswer

TakeAnswer(op, r) ==
    /\ answer' = [st |-> "done", op |-> op, r |-> r]
    /\ UNCHANGED <<session, decoder, decoded, numtext, number, context, registered,
                   operands>>

relaxed_eq ==
    /\ answer.st = "none"
    /\ TakeAnswer("relaxed_eq", ValueType_relaxed_eq(operands[1], operands[2]))

NextRelaxedEq == relaxed_eq

SpecRelaxedEq == InitRelaxedEq /\ [][NextRelaxedEq]_vars

\* ------------------------------------------------------------------------
\* The column type of a value type: ValueType::to_sqlite
\* ------------------------------------------------------------------------

InitSqlite ==
    /\ NoContext
    /\ \E t \in ValueTypes : operands = <<t>>
    /\ answer = NoAnswer

to_sqlite ==
    /\ answer.st = "none"
    /\ TakeAnswer("to_sqlite", ValueType_to_sqlite(operands[1]))

NextSqlite == to_sqlite

SpecSqlite == InitSqlite /\ [][NextSqlite]_vars

\* ------------------------------------------------------------------------
\* Reading a number as a signed integer: Number::as_i64, Value::as_signed
\* ------------------------------------------------------------------------

\* The limbs the integers are made of: the least and the greatest, and the
\* ones on either side of the sign bit.
SomeLimbs == {0, 32767, 32768, 65534, 65535}

Some64 == [1..4 -> SomeLimbs]

\* The fractions of the fixed-point numbers: none, the least, a half.
SomeFractions == {Zero64, <<0, 0, 0, 1>>, <<32768, 0, 0, 0>>}

WideNumbers ==
    {WideNumber(variant, bits, Zero64) : variant \in {"Unsigned", "Signed"}, bits \in Some64}
        \cup {WideNumber("Fixed", bits, frac) : bits \in [1..4 -> {0, 65535}],
                                                frac \in SomeFractions}

RECURSIVE ValuesOfDepth(_)
ValuesOfDepth(k) ==
    IF k = 0
    THEN {Value_Int(variant, bits) : variant \in {"Unsigned", "Signed"}, bits \in Some64}
             \cup {Value_Bool(TRUE), Value_None}
    ELSE {Value_Some(v) : v \in ValuesOfDepth(k - 1)}

WideValues == UNION {ValuesOfDepth(k) : k \in 0..MaxTypeDepth}

InitSigned ==
    /\ NoContext
    /\ \/ \E n \in WideNumbers : operands = <<"Number", n>>
       \/ \E v \in WideValues : operands = <<"Value", v>>
    /\ answer = NoAnswer

as_i64 ==
    /\ answer.st = "none"
    /\ operands[1] = "Number"
    /\ TakeAnswer("as_i64", Number_as_i64(operands[2]))

as_signed ==
    /\ answer.st = "none"
    /\ operands[1] = "Value"
    /\ TakeAnswer("as_signed", Value_as_signed(operands[2]))

NextSigned == as_i64 \/ as_signed

SpecSigned == InitSigned /\ [][NextSigned]_vars

\* ------------------------------------------------------------------------
\* Properties of the streaming session
\* ------------------------------------------------------------------------

IsPrefix(a, b) == Len(a) <= Len(b) /\ SubSeq(b, 1, Len(a)) = a

\* C1: streaming determinism.  When the session has ended with the whole
\* input supplied (in one buffer, or in two chunks with the retry after
\* Incomplete made on the kept bytes followed by the second chunk), the
\* events and the error it returned are those of the whole input supplied in
\* one buffer.
C1_StreamingDeterminism ==
    (pc = "done" /\ last.fed = Len(doc)) => events = RunWhole(doc)

\* C2: incomplete input is never reported as a failure.  The calls made on a
\* proper prefix of a well-formed document return no error, and the events
\* they return are the first events of the whole document.
C2_PrefixNeverFails ==
    (valid /\ last.called /\ last.fed < Len(doc))
        => (last.st # "error" /\ IsPrefix(events, RunWhole(doc)))

\* The quoted string token of the format: the characters after the opening
\* quote up to the first quote that no backslash escapes, each backslash
\* followed by one of the escape characters.  QuotedEnd is the index of the
\* closing quote of the token whose content starts at i, 0 if the text ends
\* first, and -1 if the token has a bad escape sequence.
EscapeChars == {QUOTE, "'", "n", "r", "t", BSLASH, "0"}

RECURSIVE QuotedEnd(_, _)
QuotedEnd(text, i) ==
    IF i > Len(text) THEN 0
    ELSE IF text[i] = QUOTE THEN i
    ELSE IF text[i] = BSLASH
    THEN (IF i + 1 > Len(text) THEN 0
          ELSE IF text[i + 1] \in EscapeChars THEN QuotedEnd(text, i + 2)
          ELSE -1)
    ELSE QuotedEnd(text, i + 1)

Unescaped(c) ==
    CASE c = "n" -> NL [] c = "r" -> CR [] c = "t" -> TAB [] c = "0" -> NUL [] OTHER -> c

\* The content of the token text[i..e-1].
RECURSIVE QuotedContent(_, _, _)
QuotedContent(text, i, e) ==
    IF i >= e THEN <<>>
    ELSE IF text[i] = BSLASH
    THEN <<Unescaped(text[i + 1])>> \o QuotedContent(text, i + 2, e)
    ELSE <<text[i]>> \o QuotedContent(text, i + 1, e)

\* The last call began in value position on a buffer that starts with the
\* opening quote of a quoted string token that the whole input completes.
CallOnQuotedString ==
    /\ last.called
    /\ last.pre.state = "ExpectingValue"
    /\ last.start < last.fed
    /\ doc[last.start + 1] = QUOTE
    /\ QuotedEnd(doc, last.start + 2) > 0

\* C3: a call on a quoted string token that the buffer cuts anywhere between
\* its opening and its closing quote returns Incomplete, never an error; a
\* call on a buffer that holds the token from its start to its closing quote
\* returns the string with the token's full content.
C3_QuotedStringSplit ==
    CallOnQuotedString =>
        LET e == QuotedEnd(doc, last.start + 2)
        IN  IF last.fed < e THEN last.st = "incomplete"
            ELSE /\ last.st = "ok"
                 /\ last.ev = SimpleString(QuotedContent(doc, last.start + 2, e))

\* C3 witness: the retry of a call that returned Incomplete on a cut token
\* with an escape sequence returns the string.
C3_Witness ==
    /\ CallOnQuotedString
    /\ last.retry
    /\ last.prevfed > last.start
    /\ last.st = "ok"
    /\ last.ev.kind = "String"
    /\ Contains(SubSeq(doc, last.start + 1, last.prevfed), BSLASH)

\* C4: a call that returns Incomplete or an error leaves the committed
\* position where it was before the call.
C4_CommittedPositionKept ==
    (last.called /\ last.st \in {"incomplete", "error"})
        => parser.location = last.pre.location

\* C5: after a SimpleValue or End event the state is ExpectingPropertyName
\* if the innermost open complex value is an Object, and ExpectingValue
\* otherwise.
C5_StateAfterValue ==
    (last.called /\ last.st = "ok" /\ last.ev.type \in {"SimpleValue", "End"})
        => parser.state = IF parser.nesting # <<>> /\ Last(parser.nesting) = "Object"
                          THEN "ExpectingPropertyName"
                          ELSE "ExpectingValue"

\* The complex values left open by a sequence of outcomes, or <<"mismatch">>
\* if an End does not close the most recent unclosed Start of its kind.
RECURSIVE OpenAfter(_, _)
OpenAfter(outs, open) ==
    IF outs = <<>> THEN open
    ELSE LET ev == Head(outs).ev
         IN  IF ev.type = "Start" THEN OpenAfter(Tail(outs), Append(open, ev.kind))
             ELSE IF ev.type = "End"
             THEN (IF open # <<>> /\ Last(open) = ev.kind
                   THEN OpenAfter(Tail(outs), Pop(open))
                   ELSE <<"mismatch">>)
             ELSE OpenAfter(Tail(outs), open)

ClosedKind(ch) == IF ch = "]" THEN "Array" ELSE "Object"

\* The last call read a closing bracket as a token while nothing was open or
\* the innermost open complex value was of the other kind.
UnmatchedClosingBracket ==
    /\ last.called
    /\ last.ch \in {"]", "}"}
    /\ \/ last.pre.nesting = <<>>
       \/ Last(last.pre.nesting) # ClosedKind(last.ch)

\* C6: every End event closes the most recent unclosed Start and has its
\* kind (so the events returned leave open exactly the nesting stack); a
\* closing bracket read when the nesting stack is empty or its top has the
\* other kind yields an error and leaves the nesting stack unchanged.
C6_EndClosesStart ==
    /\ OpenAfter(events, <<>>) = parser.nesting
    /\ UnmatchedClosingBracket =>
           (last.st = "error" /\ parser.nesting = last.pre.nesting)

\* C6 witness: a `]` read in value position inside an object was refused,
\* after an End event closed a Start.
C6_Witness ==
    /\ UnmatchedClosingBracket
    /\ last.ch = "]"
    /\ last.pre.state = "ExpectingValue"
    /\ last.pre.nesting # <<>>
    /\ \E i \in DOMAIN events : events[i].ev.type = "End"

\* C12: after a DocCommentLine event, the next event that is not itself a
\* DocCommentLine is a PropertyName, a SimpleValue or a Start; any other
\* continuation makes Parser::next return an error instead of an event.
C12_AfterDocComment ==
    \A i \in DOMAIN events :
        (i > 1 /\ events[i - 1].ev.type = "DocCommentLine") =>
            \/ events[i].st = "error"
            \/ events[i].ev.type \in {"DocCommentLine", "PropertyName", "SimpleValue", "Start"}

\* ------------------------------------------------------------------------
\* Properties of the lexer and the builder on written trees
\* ------------------------------------------------------------------------

EventsOf(outs) == [i \in DOMAIN outs |-> outs[i].ev]

OkOutcomes(evs) == [i \in DOMAIN evs |-> [st |-> "ok", ev |-> evs[i], err |-> NoError]]

\* An object whose properties all have simple values.
AllSimple(t) ==
    /\ t.type = "Object"
    /\ t.doc = <<>>
    /\ \A i \in DOMAIN t.props : t.props[i].value.type = "Simple" /\ t.props[i].doc = <<>>

\* C7: for an object whose properties all have simple values, written
\* `{ n1 v1, n2 v2, ... }`, successive calls of Parser::next return exactly
\* Start(Object), then PropertyName(name) and SimpleValue(value) for each
\* property in source order, then End(Object): the events the builder has
\* drawn so far are always the first events of that sequence, they are the
\* whole of it once the object is built, and calling Parser::next until it
\* returns no event gives that sequence and nothing else.
C7_SimpleObjectEvents ==
    (AllSimple(tree) /\ fed = Len(doc)) =>
        /\ \A i \in DOMAIN events : events[i].st = "ok"
        /\ IsPrefix(EventsOf(events), ExpectedEvents(tree))
        /\ (pc = "done" /\ valid) => EventsOf(events) = ExpectedEvents(tree)
        /\ pc = "done" => RunWhole(doc) = OkOutcomes(ExpectedEvents(tree))

\* C7 witness: an object of two simple properties has been read to its end
\* in six events.
C7_Witness ==
    /\ pc = "done"
    /\ AllSimple(tree)
    /\ Len(tree.props) = 2
    /\ fed = Len(doc)
    /\ Len(events) = 6
    /\ events[6].ev = End("Object")
    /\ built.st = "ok"

\* The buffer holds a document of distinct names cut off before its final
\* closing bracket: at least its opening bracket, and not its last character.
CutBeforeFinalBracket ==
    /\ tree.type \in {"Array", "Object"}
    /\ valid
    /\ 0 < fed
    /\ fed < Len(doc)

\* C8: for a valid document cut off before its final closing bracket,
\* DocValue::parse_utf8 returns Error::UnexpectedEof, neither a value nor a
\* different error.
C8_TruncatedIsUnexpectedEof ==
    (pc = "done" /\ CutBeforeFinalBracket) => built = BuiltErr(Error_UnexpectedEof)

\* The names an object gives to more than one property.
DuplicatedNames(t) ==
    {t.props[i].name : i \in {i \in DOMAIN t.props :
                                 \E j \in DOMAIN t.props : j # i /\ t.props[j].name = t.props[i].name}}

\* C9: when the same property name occurs twice in one object, the builder
\* fails with ParseError::DuplicatePropertyName carrying that name; it does
\* not return an Object.
C9_DuplicateNameRejected ==
    (pc = "done" /\ fed = Len(doc) /\ DuplicatedNames(tree) # {}) =>
        built \in {BuiltErr(Error_DuplicatePropertyName(n)) : n \in DuplicatedNames(tree)}

\* An object with a property whose value is an array or an object.
HasNestedProperty(t) ==
    /\ t.type = "Object"
    /\ \E i \in DOMAIN t.props : t.props[i].value.type \in {"Array", "Object"}

\* C10: when an object property's value is a nested array or object, the
\* builder inserts the completed nested value under that name in the
\* enclosing Object: a document of distinct names with such a property builds
\* into the tree it was written from.
C10_NestedPropertyBuilt ==
    (pc = "done" /\ fed = Len(doc) /\ valid /\ HasNestedProperty(tree)) =>
        built = BuiltOk(ToDocValue(tree))

\* A root simple value, or an object whose properties all have simple values,
\* with or without doc comments.
SimpleOrSimpleProps(t) ==
    \/ t.type = "Simple"
    \/ t.type = "Object" /\ \A i \in DOMAIN t.props : t.props[i].value.type = "Simple"

\* C11: the doc the builder attaches to a property, or to the root value, is
\* the concatenation in source order of the texts of the doc-comment lines
\* written immediately before it, each the characters after `///` up to and
\* including the newline; lines attached to one property are not attached to
\* a later one, and a value with no doc-comment line before it has no doc.
C11_DocCommentAttached ==
    (pc = "done" /\ fed = Len(doc) /\ valid /\ SimpleOrSimpleProps(tree)) =>
        built = BuiltOk(ToDocValue(tree))

\* C11 witness: an object was built whose first property has a doc comment
\* of two lines and whose second property has none.
C11_Witness ==
    /\ pc = "done"
    /\ built.st = "ok"
    /\ tree.type = "Object"
    /\ Len(tree.props) = 2
    /\ Len(tree.props[1].doc) = 2
    /\ tree.props[2].doc = <<>>
    /\ built.value.value.map[tree.props[1].name].doc = SomeText(<<SP, "d", NL, SP, "e", NL>>)
    /\ built.value.value.map[tree.props[2].name].doc = NoneText

\* ------------------------------------------------------------------------
\* Properties of comments, blank lines and whitespace
\* ------------------------------------------------------------------------

\* A root-level doc-comment line, one fully blank line, then a value.
DocBlankValue == <<"/", "/", "/", SP, "d", NL, NL, "1">>

\* C13: a root-level doc-comment line followed by one fully blank line and
\* then a value is lexed as the three events DocCommentLine, Linespace,
\* SimpleValue, in that order, without error.
C13_DocCommentBlankLineValue ==
    (doc = DocBlankValue /\ pc = "done" /\ last.fed = Len(doc)) =>
        events = OkOutcomes(<<DocCommentLine(<<SP, "d", NL>>), Linespace, One.ev>>)

WsChars == {SP, TAB, CR, NL}

\* The newlines of the longest prefix of s made of spaces, tabs, carriage
\* returns and newlines.
RECURSIVE LeadingNewlines(_)
LeadingNewlines(s) ==
    IF s = <<>> \/ Head(s) \notin WsChars THEN 0
    ELSE (IF Head(s) = NL THEN 1 ELSE 0) + LeadingNewlines(Tail(s))

\* The first character of s after that prefix, if any.
RECURSIVE AfterWs(_)
AfterWs(s) ==
    IF s = <<>> THEN NoChar
    ELSE IF Head(s) \in WsChars THEN AfterWs(Tail(s))
    ELSE Head(s)

\* What the last call had to read: the character kept from the previous
\* token, if any, then its buffer.
CallText ==
    (IF last.pre.maybe_peek = NoChar THEN <<>> ELSE <<last.pre.maybe_peek>>)
    \o SubSeq(doc, last.start + 1, last.fed)

\* The last call, on a buffer that was not empty, read the newline that
\* brought the newline counter to two.
ReachesSecondNewline ==
    /\ last.start < last.fed
    /\ last.pre.newline_count < 2
    /\ last.pre.newline_count + LeadingNewlines(CallText) >= 2

ReturnedLinespace == last.st = "ok" /\ last.ev = Linespace

RECURSIVE Unpadded(_)
Unpadded(s) ==
    IF s = <<>> THEN <<>>
    ELSE IF Head(s) \in WsChars THEN Unpadded(Tail(s))
    ELSE <<Head(s)>> \o Unpadded(Tail(s))

\* The last call is the first call of the session and had the whole input.
FirstCallOnWhole ==
    /\ last.called
    /\ last.start = 0
    /\ ~last.retry
    /\ last.fed = Len(doc)

\* C15: for the top-level inputs `null`, `true` and `false`, a leading or
\* trailing run of spaces or tabs, or a single leading or trailing newline,
\* does not change the first result of Parser::next: it is the SimpleValue
\* event of the bare input.
C15_WhitespaceInvariance ==
    (doc \in PaddedIdentifiers /\ FirstCallOnWhole) =>
        /\ last.st = "ok"
        /\ last.ev.type = "SimpleValue"
        /\ <<Outcome(last)>> = RunWhole(Unpadded(doc))

\* C15 witness: `null` after a tab and before a newline was read as Null.
C15_Witness ==
    /\ doc \in PaddedIdentifiers
    /\ FirstCallOnWhole
    /\ doc[1] = TAB
    /\ doc[Len(doc)] = NL
    /\ last.ev = SimpleNull

RECURSIVE CountNewlines(_)
CountNewlines(s) ==
    IF s = <<>> THEN 0 ELSE (IF Head(s) = NL THEN 1 ELSE 0) + CountNewlines(Tail(s))

\* C16: for every UnexpectedChar or InvalidPropertyNameChar error returned
\* by Parser::next, the offending character is the last one read and the
\* reported line is 1 plus the number of newlines that precede it in the
\* input, whatever events came before.
C16_ErrorLine ==
    (last.called /\ last.st = "error"
                 /\ last.err.name \in {"UnexpectedChar", "InvalidPropertyNameChar"}) =>
        /\ start > 0
        /\ doc[start] = last.err.ch
        /\ last.err.line = 1 + CountNewlines(SubSeq(doc, 1, start - 1))

\* ------------------------------------------------------------------------
\* Properties of the UTF-8 decoder
\* ------------------------------------------------------------------------

\* The last call was next, on a decoder with bytes left.
NextCalled == decoded.op = "next" /\ ~Utf8Decoder_eof(decoded.pre)

\* The character at the cursor of d, by the width of its lead byte.
CharAt(d) == SubSeq(d.src, d.pos + 1, d.pos + LeadWidth(d))

\* C17: when next is called on a legal lead byte and at least as many bytes
\* remain as the lead byte's width (pos + width <= len), the last character
\* of the input included, it returns the character's bytes and advances pos
\* by the width; it reports a short read only when fewer bytes remain.
C17_NextReturnsCharacter ==
    (NextCalled /\ LeadWidth(decoded.pre) > 0) =>
        IF decoded.pre.pos + LeadWidth(decoded.pre) <= decoded.pre.len
        THEN /\ decoded.item = Decoded_Ok(CharAt(decoded.pre))
             /\ decoder.pos = decoded.pre.pos + LeadWidth(decoded.pre)
        ELSE /\ ~decoded.item.ok
             /\ decoder.pos = decoded.pre.pos

RuleOf(s) ==
    IF Len(s) >= 2 /\ s[1] = "0" /\ s[2] = "x" THEN "hex"
    ELSE IF \E i \in DOMAIN s : s[i] = "." THEN "fixed"
    ELSE IF Len(s) >= 1 /\ s[1] = "-" THEN "signed"
    ELSE IF Len(s) >= 2 /\ s[1] = "0" THEN "octal"
    ELSE "unsigned"

RuleBase(rule) == IF rule = "hex" THEN 16 ELSE IF rule = "octal" THEN 8 ELSE 10

RuleKind(rule) ==
    IF rule = "fixed" THEN "Fixed" ELSE IF rule = "signed" THEN "Signed" ELSE "Unsigned"

RuleError(rule) ==
    IF rule = "hex" THEN "InvalidHexNumber"
    ELSE IF rule = "fixed" THEN "InvalidFixedPointNumber"
    ELSE IF rule = "signed" THEN "InvalidSignedNumber"
    ELSE IF rule = "octal" THEN "InvalidOctalNumber"
    ELSE "InvalidUnsignedNumber"

\* The digits a rule reads, and the integer they write in its base.
RuleDigits(s, rule) == IF rule = "hex" THEN SubSeq(s, 3, Len(s)) ELSE s

Magnitude(s, base) ==
    DigitsValue(IF s # <<>> /\ s[1] \in {"+", "-"} THEN Tail(s) ELSE s, base, 0)

IntegerIn(s, base) ==
    IF s # <<>> /\ s[1] = "-" THEN 0 - Magnitude(s, base) ELSE Magnitude(s, base)

\* C19: Number::from_str parses its text by the first rule that matches, in
\* the order: `0x` prefix, base-16 Unsigned; containing `.`, Fixed; leading
\* `-`, base-10 Signed; leading `0` with at least one more character, base-8
\* Unsigned; otherwise base-10 Unsigned.  A text that fails its rule returns
\* that rule's error.
C19_FromStrRules ==
    number.st = "done" =>
        IF number.r.ok
        THEN /\ number.r.kind = RuleKind(RuleOf(numtext))
             /\ RuleOf(numtext) # "fixed" =>
                    number.r.n = IntegerIn(RuleDigits(numtext, RuleOf(numtext)),
                                           RuleBase(RuleOf(numtext)))
        ELSE number.r.err = RuleError(RuleOf(numtext))

\* A text with a leading zero has been parsed in base 8.
C19_Witness ==
    /\ number.st = "done"
    /\ numtext = <<"0", "1", "7">>
    /\ number.r = Parsed("Unsigned", 15, 0)

\* ------------------------------------------------------------------------
\* Properties of numbers, dates and date-times in value position
\* ------------------------------------------------------------------------

RECURSIVE AfterBlanks(_)
AfterBlanks(s) ==
    IF s # <<>> /\ Head(s) \in {SP, TAB, CR} THEN AfterBlanks(Tail(s)) ELSE s

\* The longest prefix of s made of the characters of a token.
RECURSIVE TokenPrefix(_)
TokenPrefix(s) ==
    IF s # <<>> /\ Head(s) \in Digit \cup Letter \cup {"-", ":", "."}
    THEN <<Head(s)>> \o TokenPrefix(Tail(s))
    ELSE <<>>

\* The token the last call had before it.
CallToken == TokenPrefix(AfterBlanks(CallText))

\* The last call began in value position before a token that starts with a
\* digit or "-", and lexed it: it returned an event, or an error other than
\* that of a character no token holds.
LexedToken ==
    /\ last.called
    /\ last.pre.state = "ExpectingValue"
    /\ CallToken # <<>>
    /\ CallToken[1] \in Digit \cup {"-"}
    /\ \/ last.st = "ok"
       \/ last.st = "error" /\ last.err.name # "UnexpectedChar"

TokenClass(t) ==
    IF t[1] = "-" THEN "Number"
    ELSE IF \E i \in DOMAIN t : t[i] = ":" THEN "DateTime"
    ELSE IF \E i \in DOMAIN t : t[i] = "-" THEN "Date"
    ELSE "Number"

ClassErrors(class) ==
    IF class = "DateTime" THEN {"InvalidDateTime"}
    ELSE IF class = "Date"
    THEN {"MissingYearInDate", "InvalidDateYear", "MissingMonthInDate",
          "InvalidDateMonth", "MissingDayInDate", "InvalidDateDay", "InvalidDate"}
    ELSE {"InvalidHexNumber", "InvalidFixedPointNumber", "InvalidSignedNumber",
          "InvalidOctalNumber", "InvalidUnsignedNumber"}

\* C20: a token lexed in value position that starts with a digit is parsed
\* as a DateTime if its text contains `:`, else as a Date if it contains `-`,
\* else as a Number; a token with a leading `-` is always parsed as a
\* Number.  The call returns a value of that kind or that parser's error.
C20_TokenClassification ==
    LexedToken =>
        IF last.st = "ok"
        THEN last.ev.type = "SimpleValue" /\ last.ev.kind = TokenClass(CallToken)
        ELSE /\ last.err.name \in ClassErrors(TokenClass(CallToken))
             /\ last.err.text = CallToken

\* A token with two "-" and no ":" has been lexed whole and given a Date.
C20_Witness ==
    /\ LexedToken
    /\ CallToken = <<"2", "0", "2", "0", "-", "0", "1", "-", "0", "2">>
    /\ last.st = "ok"
    /\ last.ev.kind = "Date"

\* ------------------------------------------------------------------------
\* Properties of literal strings
\* ------------------------------------------------------------------------

RECURSIVE LeadingHashes(_)
LeadingHashes(s) ==
    IF s # <<>> /\ Head(s) = "#" THEN 1 + LeadingHashes(Tail(s)) ELSE 0

\* The fence that closes a literal string opened by n `#`.
Fence(n) == <<QUOTE>> \o [i \in 1..n |-> "#"]

\* The positions of s where the fence of n `#` begins.
FenceAt(s, n) == {i \in 1..Len(s) : i + n <= Len(s) /\ SubSeq(s, i, i + n) = Fence(n)}

Least(S) == CHOOSE i \in S : \A j \in S : i <= j

\* The last call began in value position on a text that opens a literal
\* string: n >= 1 `#` and a `"`.  Opened is what follows the `"`.
Opener == LeadingHashes(CallText)
Opened == SubSeq(CallText, Opener + 2, Len(CallText))

LiteralCall ==
    /\ last.called
    /\ last.pre.state = "ExpectingValue"
    /\ last.pre.maybe_peek = NoChar
    /\ Opener >= 1
    /\ Len(CallText) > Opener
    /\ CallText[Opener + 1] = QUOTE

\* C21: a literal string opened by n >= 1 `#` and a `"` has as its value the
\* text between that `"` and the first following `"` followed by n `#`;
\* backslashes are kept, and a `"` followed by fewer `#` is content.  Until
\* the fence has been read the call returns Incomplete.
C21_LiteralString ==
    LiteralCall =>
        IF FenceAt(Opened, Opener) # {}
        THEN /\ last.st = "ok"
             /\ last.ev = SimpleString(SubSeq(Opened, 1, Least(FenceAt(Opened, Opener)) - 1))
        ELSE last.st = "incomplete"

\* The literal string of the test with two `#` has been read whole: its
\* content holds a `"` followed by one `#`.
C21_Witness ==
    /\ LiteralCall
    /\ Opener = 2
    /\ last.st = "ok"
    /\ last.ev = SimpleString(<<"a", "#", QUOTE, "b", QUOTE, "#", "c">>)

\* ------------------------------------------------------------------------
\* Properties of blank lines and comments
\* ------------------------------------------------------------------------

\* The runs of two or more newlines of s, with only spaces, tabs and
\* carriage returns between them; n is the newlines of the run being read.
RECURSIVE NewlineRuns(_, _)
NewlineRuns(s, n) ==
    IF s = <<>> THEN (IF n >= 2 THEN 1 ELSE 0)
    ELSE IF Head(s) = NL THEN NewlineRuns(Tail(s), n + 1)
    ELSE IF Head(s) \in {SP, TAB, CR} THEN NewlineRuns(Tail(s), n)
    ELSE (IF n >= 2 THEN 1 ELSE 0) + NewlineRuns(Tail(s), 0)

\* Every newline of s is in such a run.
RECURSIVE NewlinesInRuns(_, _)
NewlinesInRuns(s, n) ==
    IF s = <<>> THEN n # 1
    ELSE IF Head(s) = NL THEN NewlinesInRuns(Tail(s), n + 1)
    ELSE IF Head(s) \in {SP, TAB, CR} THEN NewlinesInRuns(Tail(s), n)
    ELSE n # 1 /\ NewlinesInRuns(Tail(s), 0)

RECURSIVE Linespaces(_)
Linespaces(es) ==
    IF es = <<>> THEN 0
    ELSE (IF Head(es).ev.type = "Linespace" THEN 1 ELSE 0) + Linespaces(Tail(es))

\* The input has no string and no block comment, which may hold newlines of
\* their own.
NoStringOrBlock == \A i \in DOMAIN doc : doc[i] \notin {QUOTE, "#", "*"}

\* The session has ended without an error, with the whole input read.
ReadWhole == pc = "done" /\ last.st = "incomplete" /\ fed = Len(doc)

\* C22: a run of two or more consecutive newlines produces exactly one
\* Linespace event, however long it is and however the input is divided
\* over the calls.  On an input all of whose newlines are in such runs, the
\* Linespace events never outnumber the runs, and equal them in number once
\* the whole input has been read without an error.
C22_OneLinespacePerRun ==
    (NoStringOrBlock /\ NewlinesInRuns(doc, 0)) =>
        /\ Linespaces(events) <= NewlineRuns(doc, 0)
        /\ ReadWhole => Linespaces(events) = NewlineRuns(doc, 0)

\* ------------------------------------------------------------------------
\* Properties of the parser's state
\* ------------------------------------------------------------------------

\* C23: when Parser::next returns Incomplete, the parser is as it was before
\* the call: the state, the nesting stack, the newline counter, the
\* pushed-back character and the doc-comment flag keep their values.
C23_IncompleteKeepsParser ==
    (last.called /\ last.st = "incomplete") =>
        /\ parser.state = last.pre.state
        /\ parser.nesting = last.pre.nesting
        /\ parser.newline_count = last.pre.newline_count
        /\ parser.maybe_peek = last.pre.maybe_peek
        /\ parser.just_parsed_doc_comment = last.pre.just_parsed_doc_comment

\* C24: Parser::next returns a PropertyName event only while the innermost
\* open complex value is an Object: never with an empty nesting stack, nor
\* with an Array at its top.
C24_PropertyNameInObject ==
    (last.called /\ last.st = "ok" /\ last.ev.type = "PropertyName") =>
        /\ last.pre.nesting # <<>>
        /\ Last(last.pre.nesting) = "Object"

\* The first character the last call had to read after spaces, tabs and
\* carriage returns.
FirstRead == IF AfterBlanks(CallText) = <<>> THEN NoChar ELSE Head(AfterBlanks(CallText))

\* C25: a `,` read by Parser::next with an empty nesting stack makes the
\* call return UnexpectedChar, whatever the state; it is consumed without an
\* event only with a non-empty nesting stack.
C25_CommaNeedsNesting ==
    (last.called /\ last.pre.nesting = <<>> /\ FirstRead = ",") =>
        /\ last.st = "error"
        /\ last.err.name = "UnexpectedChar"
        /\ last.err.ch = ","

\* ------------------------------------------------------------------------
\* Properties of comments
\* ------------------------------------------------------------------------

\* The position of the first newline of s, 0 if it has none.
RECURSIVE FirstNewline(_, _)
FirstNewline(s, i) ==
    IF i > Len(s) THEN 0 ELSE IF s[i] = NL THEN i ELSE FirstNewline(s, i + 1)

\* The last call had before it a `//` comment that is not a doc comment, the
\* newline that ends it, and at once one more newline: a comment line
\* followed by a blank line.
LineCommentThenBlank ==
    /\ last.called
    /\ last.pre.maybe_peek = NoChar
    /\ Len(CallText) >= 4
    /\ CallText[1] = "/"
    /\ CallText[2] = "/"
    /\ CallText[3] # "/"
    /\ FirstNewline(CallText, 1) + 1 <= Len(CallText)
    /\ CallText[FirstNewline(CallText, 1) + 1] = NL

\* C26: a `//` comment does not consume the newline that ends it, so a `//`
\* comment line followed by a blank line yields Linespace, whatever the
\* comment's text, the empty text included.
C26_LineCommentKeepsNewline ==
    LineCommentThenBlank => last.st = "ok" /\ last.ev = Linespace

\* The last call had a `/*` before it.
BlockCommentCall ==
    /\ last.called
    /\ last.pre.maybe_peek = NoChar
    /\ Len(CallText) >= 2
    /\ CallText[1] = "/"
    /\ CallText[2] = "*"

\* The positions after the opener where a `*/` begins.
Terminators == {i \in 3..(Len(CallText) - 1) : CallText[i] = "*" /\ CallText[i + 1] = "/"}

\* What follows the first terminator.
AfterBlockComment == SubSeq(CallText, Least(Terminators) + 2, Len(CallText))

\* The parser as a token that yields no event leaves it.
AfterNoEvent(p) == [p EXCEPT !.newline_count = 0, !.just_parsed_doc_comment = FALSE]

\* Two calls returned the same: an event, Incomplete, or an error of one
\* kind (the positions of the errors apart).
SameReturn(a, b) ==
    /\ a.st = b.st
    /\ a.ev = b.ev
    /\ a.err.name = b.err.name
    /\ a.err.ch = b.err.ch
    /\ a.err.text = b.err.text

\* C27: a `/* ... */` comment produces no event and ends at the first `*/`
\* after its opener, over any number of lines; `/*/` does not close it.  The
\* call returns what a call on the text after that `*/` returns, and
\* Incomplete when the input ends before a `*/`.
C27_BlockComment ==
    BlockCommentCall =>
        IF Terminators = {} THEN last.st = "incomplete"
        ELSE SameReturn(last, Parser_next(AfterNoEvent(last.pre), AfterBlockComment))

\* A comment that begins `/*/` and spans two lines has been passed over, and
\* the `[` after it returned.
C27_Witness ==
    /\ BlockCommentCall
    /\ CallText = <<"/", "*", "/", "a", NL, "*", "/", "[">>
    /\ last.st = "ok"
    /\ last.ev = Start("Array")

\* The last call had a `///` before it.
DocCommentCall ==
    /\ last.called
    /\ last.pre.maybe_peek = NoChar
    /\ Len(CallText) >= 3
    /\ CallText[1] = "/"
    /\ CallText[2] = "/"
    /\ CallText[3] = "/"

\* C28: a `///` doc comment read in ExpectingValue state with a non-empty
\* nesting stack makes Parser::next return UnexpectedDocComment.  Read in
\* ExpectingValue state with an empty nesting stack, or in
\* ExpectingPropertyName state, it is returned as DocCommentLine, with the
\* text up to and with its newline, once that newline has been read.
C28_DocCommentPlace ==
    DocCommentCall =>
        IF last.pre.state = "ExpectingValue" /\ last.pre.nesting # <<>>
        THEN last.st = "error" /\ last.err.name = "UnexpectedDocComment"
        ELSE IF FirstNewline(CallText, 1) = 0 THEN last.st = "incomplete"
        ELSE /\ last.st = "ok"
             /\ last.ev = DocCommentLine(SubSeq(CallText, 4, FirstNewline(CallText, 1)))

\* A doc comment before the first element of an array has been refused.
C28_Witness ==
    /\ DocCommentCall
    /\ last.pre.state = "ExpectingValue"
    /\ last.pre.nesting = <<"Array">>
    /\ last.st = "error"
    /\ last.err.name = "UnexpectedDocComment"

\* ------------------------------------------------------------------------
\* Further properties of numbers and dates in value position
\* ------------------------------------------------------------------------

\* The token that starts with `+` which the last call had before it.
PlusText == <<"+">> \o TokenPrefix(Tail(AfterBlanks(CallText)))

\* The last call began in value position before a token that starts with
\* `+`, and did not run out of input.
PlusToken ==
    /\ last.called
    /\ last.pre.state = "ExpectingValue"
    /\ last.pre.maybe_peek = NoChar
    /\ FirstRead = "+"
    /\ last.st # "incomplete"

\* C29: in ExpectingValue state a token that begins with `+` is lexed as a
\* Number, as one that begins with `-` or a digit is: the call returns the
\* Number of the token's text, or the error of Number::from_str.
C29_PlusIsNumber ==
    PlusToken =>
        IF last.st = "ok"
        THEN last.ev = SimpleNumber(Number_from_str(PlusText))
        ELSE last.err.name \in ClassErrors("Number")

\* The last call lexed a token that is parsed as a Date; its fields are the
\* parts of its text between the `-`.
DateToken == LexedToken /\ TokenClass(CallToken) = "Date"
DateFields == Split(CallToken, "-")

YearField(f) == ParseInt(f, 10, TRUE).ok
MonthField(f) == ParseInt(TrimStartMatches(f, "0"), 10, FALSE).ok

\* C30: parse_date accepts only a text of exactly three fields.  A text of
\* two fields, year and month, fails with MissingDayInDate; a text of more
\* than three fields is rejected, not parsed from its first three.
C30_DateHasThreeFields ==
    DateToken =>
        /\ last.st = "ok" => Len(DateFields) = 3
        /\ Len(DateFields) > 3 => last.st = "error"
        /\ (Len(DateFields) = 2 /\ YearField(DateFields[1]) /\ MonthField(DateFields[2])) =>
               last.st = "error" /\ last.err.name = "MissingDayInDate"

\* ------------------------------------------------------------------------
\* Further properties of the UTF-8 decoder
\* ------------------------------------------------------------------------

\* The newline characters among the characters of src from position i up to
\* position pos, a character being as wide as its lead byte tells.
RECURSIVE NewlineChars(_, _, _)
NewlineChars(src, i, pos) ==
    IF i >= pos THEN 0
    ELSE (IF src[i + 1] = 10 THEN 1 ELSE 0)
         + NewlineChars(src, i + (IF UTF8_CHAR_WIDTH(src[i + 1]) = 0 THEN 1
                                  ELSE UTF8_CHAR_WIDTH(src[i + 1])), pos)

\* C31: the decoder's line is START_LINE plus the number of newline
\* characters among the characters consumed so far, and a call of next that
\* returns an error or None leaves pos and line as they were.
C31_LineCountsNewlines ==
    /\ decoder.line = START_LINE + NewlineChars(decoder.src, 0, decoder.pos)
    /\ (decoded.op = "next" /\ ~decoded.item.ok) =>
           /\ decoder.pos = decoded.pre.pos
           /\ decoder.line = decoded.pre.line

\* A newline and a further character have been consumed, and the call after
\* them returned an error: the line is the second.
C31_Witness ==
    /\ decoded.op = "next"
    /\ decoded.item.some
    /\ ~decoded.item.ok
    /\ decoder.pos = 2
    /\ decoder.src[1] = 10
    /\ decoder.line = 2

C33_SliceWithinSource ==
    decoded.op = "slice" =>
        IF decoded.end > decoded.pre.len THEN decoded.item = Decoded_None
        ELSE decoded.item =
                 Decoded_Ok([i \in 1..(decoded.end - decoded.start) |->
                                decoded.pre.src[decoded.start + i]])

\* ------------------------------------------------------------------------
\* Properties of the builder on documents with blank lines
\* ------------------------------------------------------------------------

\* A tree whose document, as written, the builder turns into its value: a
\* simple value, an array of simple values, or an object whose properties
\* have simple values.
SimpleOrOfSimples(t) ==
    \/ SimpleOrSimpleProps(t)
    \/ t.type = "Array" /\ \A i \in DOMAIN t.items : t.items[i].type = "Simple"

\* C34: a blank line before the root value, between two properties or
\* between two array elements does not change what the builder produces:
\* the document gives the value it gives without the blank line.
C34_BlankLinesIgnored ==
    (pc = "done" /\ fed = Len(doc) /\ valid /\ SimpleOrOfSimples(tree)) =>
        built = BuiltOk(ToDocValue(tree))

\* Lexing sessions and builds together: the documents of Spec driven by
\* Parser::next, and the written trees driven by DocValue::parse_utf8.
InitNesting == Init \/ InitBuild

NextNesting == Next \/ NextBuild

SpecNesting == InitNesting /\ [][NextNesting]_vars

\* The number of events of a type that the calls so far returned.
EventsReturned(type) ==
    Cardinality({i \in DOMAIN events : events[i].st = "ok" /\ events[i].ev.type = type})

\* C35: after any sequence of calls of Parser::next the nesting stack is as
\* long as the number of Start events returned less the number of End events
\* returned, expecting_more is true exactly when that difference is
\* positive, and it is false when DocValue::from_parser has returned a value.
C35_NestingCountsOpenValues ==
    /\ Len(parser.nesting) = EventsReturned("Start") - EventsReturned("End")
    /\ expecting_more(parser) <=> EventsReturned("Start") - EventsReturned("End") > 0
    /\ built.st = "ok" => ~expecting_more(parser)

\* A build that returned a value after values were opened and closed.
C35_Witness ==
    /\ built.st = "ok"
    /\ EventsReturned("Start") = 2
    /\ EventsReturned("End") = 2
    /\ ~expecting_more(parser)

\* C36: a call of register_template for a name that is already registered
\* returns Ok and leaves the registry as it was if the content is the one the
\* name was registered with, and returns TemplateAlreadyExists if the content
\* differs, whatever was registered under other names in between.
C36_ReregistrationByContent ==
    (registered.called /\ registered.name \in Keys(registered.pre.hb)) =>
        IF registered.template = Get(registered.pre.hb, registered.name)
        THEN registered.r = Registered_Ok /\ context = registered.pre
        ELSE registered.r = Registered_Err("TemplateAlreadyExists", registered.name)

IsSimple(t) == Variant(t) \in SimpleTypes

\* C37: relaxed_eq returns a boolean for every pair of value types, never
\* reaching its panic arm: two different simple types compare as false, and
\* a simple type compared with an Option, Array or Map type gets a result.
C37_RelaxedEqNeverPanics ==
    (answer.st = "done" /\ answer.op = "relaxed_eq") =>
        /\ ~answer.r.panic
        /\ (IsSimple(operands[1]) /\ IsSimple(operands[2]) /\ operands[1] # operands[2]) =>
               answer.r = Returns(FALSE)

\* The value inside the Options of a value, if there is one.
RECURSIVE Unwrapped(_)
Unwrapped(v) == IF v.variant = "Option" /\ v.some THEN Unwrapped(v.inner) ELSE v

\* The receiver of the call, when it is, or holds, an Unsigned.
IsUnsigned == answer.st = "done" /\ Unwrapped(operands[2]).variant = "Unsigned"

\* C38: Number::as_i64 and Value::as_signed return Some(v) for an Unsigned
\* value exactly when it is representable as a signed 64-bit integer, that
\* is for every u <= i64::MAX, i64::MAX included, and None for larger values.
C38_UnsignedUpToMax ==
    IsUnsigned =>
        IF u64_le(Unwrapped(operands[2]).bits, i64_MAX)
        THEN answer.r = SomeInt(Unwrapped(operands[2]).bits)
        ELSE answer.r = NoneInt

\* The type inside the Options of a type.
RECURSIVE Optional(_)
Optional(t) == IF Variant(t) = "Option" THEN Optional(Inner(t)) ELSE t

\* C39: to_sqlite gives a NOT NULL column type for every known type that is
\* not optional, a column type without the " NOT NULL" suffix for Option(T)
\* at any depth of Option, and UnknownValueType for Unknown.
C39_OptionIsNullable ==
    (answer.st = "done" /\ answer.op = "to_sqlite") =>
        IF operands[1] = ValueType_Unknown
        THEN answer.r = SqliteErr("UnknownValueType")
        ELSE IF Variant(operands[1]) # "Option"
        THEN answer.r = SqliteOk(SqliteName(Variant(operands[1])) \o NOT_NULL)
        ELSE Optional(operands[1]) # ValueType_Unknown =>
                 answer.r = SqliteOk(SqliteName(Variant(Optional(operands[1]))))

====
